---- MODULE Spec2Model ----
(***************************************************************************)
(* Model of the tool-orchestration loop of AgentZer0:                      *)
(*   client/mcp_client.py      MCPClient (catalog, process_query,          *)
(*                             _find_server_for_tool, _format_tool_result) *)
(*   client/language_model.py  LanguageModelClient.generate_completion     *)
(*                                                                         *)
(* Text is a sequence of tokens; the text it stands for is the             *)
(* concatenation of the tokens.  The characters the regular expressions   *)
(* of the code look for ("<", "function=", "{", "}", "(", ")", ">",        *)
(* "</function>", newline) are tokens of their own, so that matching on   *)
(* tokens is matching on the text.                                         *)
(***************************************************************************)
EXTENDS Integers, Sequences, FiniteSets, TLC

(***************************************************************************)
(* Bounds of the model                                                    *)
(***************************************************************************)
\* rounds of one query in which the model's reply leads to a dispatch batch
MaxBatches == 2

(***************************************************************************)
(* Lexicon                                                                *)
(***************************************************************************)
NL == "\n"
LT == "<"
GT == ">"
FN == "function="
LB == "{"
RB == "}"
LP == "("
RP == ")"
ENDTAG == "</function>"

\* argument text pieces
QKV == "\"query\":\"eth\""            \* a JSON member with a quoted key
UKV == "query:\"eth\""                \* the same member, key not quoted
QSTR == "\"eth\""                     \* a bare quoted string
JUNK == "not json"
QUERYKEY == "\"query\": "             \* the prefix the wrapping adds (after "{")

\* tokens that match \w+ as a whole
Word == {"search", "price", "get_price"}

\* tokens in which the (case-sensitive) text "Error" occurs
ErrorToks == {"Error: ", "Error: The ",
              " tool encountered an error. Please try a different approach. Error details: ",
              "Error using tool ", "Error using tool '"}
\* tokens with which a text that starts with "Error" can start
ErrorStartToks == {"Error: ", "Error: The ", "Error using tool ", "Error using tool '"}
\* tokens whose lower-cased text contains "price"
PriceToks == {"price", "get-price", "get_price", "price of BTC", "price of ETH"}
\* tokens whose lower-cased text contains "search results" / "research"
SearchResultsToks == {"search results: ETH 3,000"}
ResearchToks == {"Let me research that."}
\* tokens whose lower-cased text contains "value"
ValueToks == {}
\* tokens whose lower-cased text names one of the listed currencies
CryptoToks == {"price of BTC", "price of ETH", "BTC is $67,000", "BTC is $66,900",
               "search results: ETH 3,000", QKV, UKV, QSTR}

Contains(text, toks) == \E i \in 1..Len(text) : text[i] \in toks
StartsWith(text, toks) == Len(text) > 0 /\ text[1] \in toks

\* s[i..] begins with the token sequence p
StartsAt(s, i, p) ==
    /\ i >= 1
    /\ i + Len(p) - 1 <= Len(s)
    /\ \A k \in 1..Len(p) : s[i + k - 1] = p[k]

RECURSIVE LStrip(_)
LStrip(s) == IF s # <<>> /\ Head(s) \in {NL, " "} THEN LStrip(Tail(s)) ELSE s

RECURSIVE RStrip(_)
RStrip(s) ==
    IF s # <<>> /\ s[Len(s)] \in {NL, " "} THEN RStrip(SubSeq(s, 1, Len(s) - 1)) ELSE s

\* str.strip()
Strip(s) == RStrip(LStrip(s))

\* The lazy group (.*?) followed by the literal `close`: the least j >= i
\* such that `close` starts at j and no newline lies in s[i..j-1]; 0 if none.
RECURSIVE LazyClose(_, _, _)
LazyClose(s, i, close) ==
    IF i + Len(close) - 1 > Len(s) THEN 0
    ELSE IF StartsAt(s, i, close) THEN i
    ELSE IF s[i] = NL THEN 0
    ELSE LazyClose(s, i + 1, close)

\* (.*?) followed by `close` and the end of the text: `close` ends the text
\* and no newline lies between i and it.
ClosesAtEnd(s, i, close) ==
    LET j == Len(s) - Len(close) + 1
    IN  /\ j >= i
        /\ StartsAt(s, j, close)
        /\ \A k \in i..(j - 1) : s[k] # NL

\* `pre` (\w+) `open` at position i
OpensAt(s, i, pre, open) ==
    /\ StartsAt(s, i, pre)
    /\ i + Len(pre) + 1 <= Len(s)
    /\ s[i + Len(pre)] \in Word
    /\ s[i + Len(pre) + 1] = open

\* re.findall(pre (\w+) open (.*?) close, s), scanning from position i
RECURSIVE FindAll(_, _, _, _, _)
FindAll(s, i, pre, open, close) ==
    IF i > Len(s) THEN <<>>
    ELSE LET a == i + Len(pre) + 2
             j == IF OpensAt(s, i, pre, open) THEN LazyClose(s, a, close) ELSE 0
         IN  IF j > 0
             THEN <<[name |-> s[i + Len(pre)], args |-> SubSeq(s, a, j - 1)]>>
                  \o FindAll(s, j + Len(close), pre, open, close)
             ELSE FindAll(s, i + 1, pre, open, close)

\* re.sub(r'<function=\w+\{.*?\}>', '', s), scanning from position i
RECURSIVE RemoveCalls(_, _)
RemoveCalls(s, i) ==
    IF i > Len(s) THEN <<>>
    ELSE LET j == IF OpensAt(s, i, <<LT, FN>>, LB)
                  THEN LazyClose(s, i + 4, <<RB, GT>>) ELSE 0
         IN  IF j > 0 THEN RemoveCalls(s, j + 2)
             ELSE <<s[i]>> \o RemoveCalls(s, i + 1)


(***************************************************************************)
(* LanguageModelClient.generate_completion: what it does to the response  *)
(***************************************************************************)
\* A response of the model endpoint: content (<<>> stands for None or ""),
\* and the structured tool calls, each [id, name, arguments].
\* generate_completion appends "\n<function=NAME ARGS>" to the content for
\* every structured tool call before it returns the response.
RECURSIVE ToolCallIndicators(_)
ToolCallIndicators(calls) ==
    IF calls = <<>> THEN <<>>
    ELSE <<NL, LT, FN, Head(calls).name>> \o Head(calls).arguments \o <<GT>>
         \o ToolCallIndicators(Tail(calls))

generate_completion(raw) ==
    [content    |-> raw.content \o ToolCallIndicators(raw.tool_calls),
     tool_calls |-> raw.tool_calls]

\* formatted_tools: one function descriptor per tool of the catalog
FormatTools(tools) ==
    [k \in 1..Len(tools) |-> [type |-> "function", name |-> tools[k].name]]

(***************************************************************************)
(* process_query: classification of the response text                     *)
(***************************************************************************)
\* any(re.match(p, assistant_content.strip()) for p in function_patterns)
IsJustFunctionText(content) ==
    LET s == Strip(content)
    IN  \/ OpensAt(s, 1, <<LT, FN>>, LB) /\ ClosesAtEnd(s, 5, <<RB, GT>>)
        \/ OpensAt(s, 1, <<LT, FN>>, LP) /\ ClosesAtEnd(s, 5, <<RP, GT>>)
        \/ OpensAt(s, 1, <<LT, FN>>, LP) /\ ClosesAtEnd(s, 5, <<RP, ENDTAG>>)
        \/ OpensAt(s, 1, <<FN>>, LP) /\ LazyClose(s, 4, <<RP>>) > 0
        \/ OpensAt(s, 1, <<FN>>, LB) /\ LazyClose(s, 4, <<RB>>) > 0

\* function_matches: the matches of the five patterns, pattern by pattern
FunctionMatches(content) ==
    FindAll(content, 1, <<LT, FN>>, LB, <<RB, GT>>)
    \o FindAll(content, 1, <<LT, FN>>, LP, <<RP, GT>>)
    \o FindAll(content, 1, <<LT, FN>>, LP, <<RP, ENDTAG>>)
    \o FindAll(content, 1, <<FN>>, LP, <<RP>>)
    \o FindAll(content, 1, <<FN>>, LB, <<RB>>)

\* clean_content = re.sub(r'<function=\w+\{.*?\}>', '', content).strip()
CleanContent(content) == Strip(RemoveCalls(content, 1))

(***************************************************************************)
(* process_query: argument text -> argument mapping                       *)
(***************************************************************************)
JSONERR == "Expecting property name enclosed in double quotes"
BROKEN_QKV == "\"\"query\"\":\"eth\""
BROKEN_KEY == "\"\"query\"\": "
ESC_QKV == "\"query\":\"say \\\"hi\\\"\""     \* "query":"say \"hi\""
UNESC_QKV == "\"query\":\"say \"hi\"\""       \* "query":"say "hi""

\* tokens that start with a quote character
QuoteStartToks == {QKV, QSTR, QUERYKEY, ESC_QKV, UNESC_QKV, BROKEN_QKV, BROKEN_KEY}

\* the three-way wrapping of the argument text
WrapArgs(s) ==
    IF StartsWith(s, {LB}) THEN s
    ELSE IF StartsWith(s, QuoteStartToks) THEN <<LB, QUERYKEY>> \o s \o <<RB>>
    ELSE <<LB>> \o s \o <<RB>>

\* .replace('\\"', '"').replace("\\'", "'")
CleanUp(s) == [i \in 1..Len(s) |-> IF s[i] = ESC_QKV THEN UNESC_QKV ELSE s[i]]

\* re.sub(r'(\w+):', r'"\1":', s)
QuoteKey(tok) ==
    CASE tok = UKV -> QKV
      [] tok = QKV -> BROKEN_QKV
      [] tok = QUERYKEY -> BROKEN_KEY
      [] OTHER -> tok
QuoteKeys(s) == [i \in 1..Len(s) |-> QuoteKey(s[i])]

\* the mapping a JSON member stands for, as a set of <<key, value>>
MemberPairs(tok) ==
    CASE tok = QKV -> {<<"query", "eth">>}
      [] tok = ESC_QKV -> {<<"query", "say \"hi\"">>}
      [] OTHER -> {}

\* json.loads on an argument text
json_loads(s) ==
    IF s = <<LB, RB>> THEN [ok |-> TRUE, val |-> {}]
    ELSE IF Len(s) = 3 /\ s[1] = LB /\ s[3] = RB /\ s[2] \in {QKV, ESC_QKV}
         THEN [ok |-> TRUE, val |-> MemberPairs(s[2])]
    ELSE IF s = <<LB, QUERYKEY, QSTR, RB>>
         THEN [ok |-> TRUE, val |-> {<<"query", "eth">>}]
    ELSE [ok |-> FALSE, val |-> {}]

\* wrapping, clean-up, json.loads, and on failure the key-quoting repair
ParseToolArgs(s) ==
    LET str == CleanUp(WrapArgs(s))
        first == json_loads(str)
    IN  IF first.ok THEN first ELSE json_loads(QuoteKeys(str))

(***************************************************************************)
(* Tool servers and the catalog                                           *)
(***************************************************************************)
\* settings.mcp_servers, in configuration order
ServerConfigs == <<"alpha", "beta">>

\* the tools each server lists (session.list_tools)
ServerTools(server) ==
    IF server = "alpha" THEN <<"search", "price">> ELSE <<"price", "get-price">>

\* A raw tool result (result.content) or an item of one:
\*   kind     "none" (None), "str", "dict", "list", "value" (a number or
\*            another scalar that is no str), "object" (anything else)
\*   type     the value of the "type" key of a dict
\*   has_text there is a "text" key (dict) or a text attribute (object)
\*   str_text that text is a str; if not, `text` is what str() makes of it
\*   text     the text (for kind "str": the string itself; for kind "value":
\*            what str() makes of the value)
NoText == [kind |-> "none", type |-> "", has_text |-> FALSE, str_text |-> TRUE,
           text |-> <<>>, items |-> <<>>]
TextObject(t) == [NoText EXCEPT !.kind = "object", !.type = "text", !.has_text = TRUE, !.text = t]
Dict(ty, has, t) == [NoText EXCEPT !.kind = "dict", !.type = ty, !.has_text = has, !.text = t]
List(its) == [NoText EXCEPT !.kind = "list", !.items = its]

\* what a tool call answers when the transport works (result.content)
ToolReply(server, tool) ==
    CASE tool = "search" -> List(<<TextObject(<<"search results: ETH 3,000">>)>>)
      [] tool = "price" /\ server = "alpha" -> Dict("", TRUE, <<"BTC is $67,000">>)
      [] tool = "price" /\ server = "beta" -> Dict("", TRUE, <<"BTC is $66,900">>)
      [] tool = "get_price" -> Dict("", TRUE, <<"BTC is $67,000">>)
      [] OTHER -> Dict("error", TRUE, <<"rate limited">>)

\* _find_server_for_tool: the first server, in dict order, listing the tool
RECURSIVE FindFrom(_, _, _)
FindFrom(tbs, i, tool_name) ==
    IF i > Len(tbs) THEN ""
    ELSE IF \E k \in 1..Len(tbs[i].tools) : tbs[i].tools[k] = tool_name
         THEN tbs[i].server
    ELSE FindFrom(tbs, i + 1, tool_name)

\* faulty variant: the last server, in dict order, listing the tool
_find_last_server_for_tool(tbs, tool_name) ==
    LET S == {i \in 1..Len(tbs) : \E k \in 1..Len(tbs[i].tools) : tbs[i].tools[k] = tool_name}
    IN  IF S = {} THEN "" ELSE tbs[CHOOSE i \in S : \A j \in S : j <= i].server

_find_server_for_tool(tbs, tool_name) == FindFrom(tbs, 1, tool_name)

(***************************************************************************)
(* _format_tool_result                                                    *)
(***************************************************************************)
\* what the loop over a list appends for one item, and whether it is a str
FormatItem(item) ==
    IF item.kind = "dict" /\ item.type = "error"
    THEN [is_str |-> TRUE,
          value |-> <<"Error: ">> \o (IF item.has_text THEN item.text ELSE <<"Unknown error">>)]
    ELSE IF item.kind \in {"object", "dict"} /\ item.has_text
    THEN [is_str |-> item.str_text, value |-> item.text]
    ELSE IF item.kind = "str" THEN [is_str |-> TRUE, value |-> item.text]
    ELSE [is_str |-> TRUE, value |-> <<"<str(item)>">>]

\* "\n".join(result)
RECURSIVE JoinLines(_)
JoinLines(items) ==
    IF items = <<>> THEN <<>>
    ELSE IF Len(items) = 1 THEN FormatItem(items[1]).value
    ELSE FormatItem(items[1]).value \o <<NL>> \o JoinLines(Tail(items))

Returns(value) == [raises |-> FALSE, is_str |-> TRUE, value |-> value]

\* _format_tool_result: whether it raises, whether what it returns is a str,
\* and the value (if it raises: the text of the error)
_format_tool_result(content) ==
    CASE content.kind = "none" -> Returns(<<>>)
      [] content.kind = "str" -> Returns(content.text)
      [] content.kind = "dict" /\ content.type = "error" ->
            Returns(<<"Error: ">> \o (IF content.has_text THEN content.text
                                      ELSE <<"Unknown error">>))
      [] content.kind = "list" ->
            IF \E k \in 1..Len(content.items) : ~FormatItem(content.items[k]).is_str
            THEN [raises |-> TRUE, is_str |-> FALSE,
                  value |-> <<"sequence item: expected str instance">>]
            ELSE Returns(JoinLines(content.items))
      [] content.kind = "dict" /\ content.type # "error" ->
            IF content.has_text
            THEN [raises |-> FALSE, is_str |-> content.str_text, value |-> content.text]
            ELSE Returns(<<"<json.dumps(content)>">>)
      [] content.kind = "value" -> Returns(content.text)
      [] OTHER -> Returns(<<"<str(content)>">>)


(***************************************************************************)
(* State                                                                  *)
(***************************************************************************)
VARIABLES
    pc,                      \* "new", "idle", "llm", "tools", "text_tools",
                             \* "fallback_llm", "returned": where the client is
    tools_by_server,         \* self.tools_by_server, in dict (insertion) order
    all_tools,               \* self.all_tools
    init_success,            \* what initialize_servers returned
    messages,                \* self.messages
    iteration,               \* the loop variable of process_query
    had_tool_failure,
    is_just_function_text,   \* (have_function_text is only ever written: left out)
    pending,                 \* the calls of the batch still to be processed
    all_tools_succeeded,
    have_successful_results,
    response,                \* the response generate_completion returned last
    transport_ok,            \* the tool servers answer the calls of this step
    persist_ok,              \* log_conversation can create its directory during this query
    invocations,             \* history: the session.call_tool calls made
    llm_calls,               \* history: model calls of the main loop
    fallback_calls,          \* history: model calls with tools disabled
    batches,                 \* history: rounds that entered dispatch
    marks,                   \* history: log and invocation count at the last model call
    loop_exit,               \* history: how the loop was left
    logged,                  \* history: the log at the last log_conversation call
    \* on_message of discord_bot/events.py, handling one message
    handler_pc,              \* "none", "received", "handling", "finished"
    replies,                 \* what was sent to the user, in order
    cleaned,                 \* cleanup() of the client of this message was called
    processing_queries,      \* self.processing_queries
    \* two process_query coroutines on one client (discord/events.py)
    current,                 \* the coroutine that runs: 1 or 2; 0 when there is one only
    suspended,               \* the local variables of the coroutine that waits
    returned_log,            \* what process_query returned to each coroutine
    \* GroqClient.process_message of the agentzer0 package
    groq_pc,                 \* "none", "api" (the request is with the API), "returned"
    groq_input,              \* the arguments user_message and conversation_history
    groq_requests,           \* history: the message lists sent to the API
    groq_responses,          \* history: what the API answered
    executions,              \* history: the calls of MCPClient.execute_tool
    groq_result,             \* what process_message returned
    \* DiscordEventHandler of the agentzer0 package
    conversation_history,    \* self.conversation_history: channel id -> messages
    handling,                \* where handle_message is for each message, and the response
    bot_events,              \* history: sends, deletions and processor calls, in order
    \* Web3ResearchMCPServer of the agentzer0 package
    current_research,        \* self.current_research
    resources,               \* self.resources: resource id -> description
    web3_calls,              \* history: the execute_tool calls made; the clock
    tool_outcome             \* history: the tool of the last call, and whether it raised

client_vars == <<pc, tools_by_server, all_tools, init_success, messages, iteration,
          had_tool_failure, is_just_function_text, pending,
          all_tools_succeeded, have_successful_results, response, transport_ok,
          persist_ok, invocations, llm_calls, fallback_calls, batches, marks, loop_exit,
          logged>>

handler_vars == <<handler_pc, replies, cleaned, processing_queries>>
shared_vars == <<current, suspended, returned_log>>

groq_vars == <<groq_pc, groq_input, groq_requests, groq_responses, executions, groq_result>>

bot_vars == <<conversation_history, handling, bot_events>>

web3_vars == <<current_research, resources, web3_calls, tool_outcome>>

\* the state of the agentzer0 package
agent_vars == <<groq_vars, bot_vars, web3_vars>>

\* what the actions of GroqClient leave alone
non_groq_vars == <<client_vars, handler_vars, shared_vars, bot_vars, web3_vars>>

\* what the actions of DiscordEventHandler leave alone
non_bot_vars == <<client_vars, handler_vars, shared_vars, groq_vars, web3_vars>>

\* what the actions of Web3ResearchMCPServer leave alone
non_web3_vars == <<client_vars, handler_vars, shared_vars, groq_vars, bot_vars>>

\* what the actions of MCPClient leave alone
other_vars == <<handler_vars, shared_vars, agent_vars>>

vars == <<client_vars, other_vars>>

catalog_vars == <<tools_by_server, all_tools, init_success>>
batch_vars == <<pending, all_tools_succeeded, have_successful_results>>

max_iterations == 15

(***************************************************************************)
(* Messages                                                               *)
(***************************************************************************)
Msg(role, content) ==
    [role |-> role, content |-> content, tool_calls |-> <<>>, tool_call_id |-> 0, name |-> ""]

AssistantWithCalls(content, calls) == [Msg("assistant", content) EXCEPT !.tool_calls = calls]

ToolMsg(id, name, content) ==
    [Msg("tool", content) EXCEPT !.tool_call_id = id, !.name = name]

\* the greatest index of a set of indices; 0 if there is none
LastOf(S) == IF S = {} THEN 0 ELSE CHOOSE i \in S : \A j \in S : j <= i

\* the texts of create_system_message
SYSTEM_INTRO == "You are a helpful assistant with expertise in cryptocurrency research. "
TOOLS_GUIDANCE == "You have access to the following tools: "
PRICE_HINT == " For this cryptocurrency price query, consider using tools like get-price"

\* tokens in which one of price_related_terms occurs
PriceRelatedToks == PriceToks \cup ValueToks \cup CryptoToks

\* create_system_message: the capability summary
create_system_message(tool_names) ==
    Msg("system", <<SYSTEM_INTRO>> \o
                  (IF tool_names # <<>> THEN <<TOOLS_GUIDANCE>> \o tool_names ELSE <<>>))

\* messages_copy of generate_completion: a copy of the log in which the
\* system message is inserted at the front, or takes the place of the first
\* system message; the list it was given stays as it is
MessagesCopy(msgs, tools) ==
    LET tool_names == [k \in 1..Len(tools) |-> tools[k].name]
        u == LastOf({i \in 1..Len(msgs) : msgs[i].role = "user"})
        is_price_query == u # 0 /\ Contains(msgs[u].content, PriceRelatedToks)
        has_price_tools == \E k \in 1..Len(tool_names) : tool_names[k] \in PriceToks
        plain == create_system_message(tool_names)
        system_message ==
            IF is_price_query /\ has_price_tools
            THEN [plain EXCEPT !.content = @ \o <<PRICE_HINT>>]
            ELSE plain
        systems == {i \in 1..Len(msgs) : msgs[i].role = "system"}
    IN  IF systems = {}
        THEN <<system_message>> \o msgs
        ELSE [msgs EXCEPT ![CHOOSE i \in systems : \A j \in systems : i <= j] = system_message]

\* faulty variant: generate_completion works on the list it was given
AfterCompletion_NoCopy(msgs, tools) == MessagesCopy(msgs, tools)

\* the caller's list after generate_completion: `messages_copy = messages.copy()`,
\* so the system message goes into the copy only
AfterCompletion(msgs, tools) == msgs

\* the parameters of the request: "tools" (with tool_choice "auto") is a
\* parameter only `if formatted_tools`
RequestParams(msgs, tools) ==
    [messages |-> MessagesCopy(msgs, tools),
     has_tools |-> FormatTools(tools) # <<>>,
     tools |-> FormatTools(tools)]

GENERIC_FALLBACK ==
    <<"I've made several attempts to retrieve information but encountered some issues. Could you provide more details about what you're looking for?">>
APOLOGY ==
    <<"I'm sorry, I'm having trouble processing your request right now. Please try again later.">>
TRY_WITHOUT_TOOLS ==
    "I encountered an error processing your request. Let me try to answer without using tools: "
ILL_TRY == <<"I'll try to get that information for you.">>

\* f"Tool '{tool_name}' not found in any connected server"
NotFoundText(tool_name) == <<"Tool '", tool_name, "' not found in any connected server">>

\* the content of a tool execution error
ToolErrorText(tool_name, err) ==
    <<"Error: The ", tool_name,
      " tool encountered an error. Please try a different approach. Error details: ">> \o err

\* the check "we got a successful price or other useful data" of the structured path
UsefulData(content) ==
    /\ content # <<>>
    /\ ~StartsWith(content, ErrorStartToks)
    /\ \/ Contains(content, PriceToks)
       \/ Contains(content, ValueToks) /\ Contains(content, CryptoToks)
       \/ Contains(content, SearchResultsToks)
       \/ Contains(content, ResearchToks)

IsCleanToolMsg(m) == m.role = "tool" /\ ~Contains(m.content, ErrorToks)
MentionsResearch(m) == Contains(m.content, SearchResultsToks \cup ResearchToks)

\* the final response synthesized when iteration == max_iterations - 1
CapAnswer(msgs) ==
    LET t == LastOf({i \in 1..Len(msgs) : IsCleanToolMsg(msgs[i])})
        first == IF t = 0 THEN <<>> ELSE msgs[t].content
        r == LastOf({i \in 1..Len(msgs) : MentionsResearch(msgs[i])})
        last_successful_content ==
            IF first # <<>> THEN first ELSE IF r = 0 THEN <<>> ELSE msgs[r].content
    IN  IF last_successful_content # <<>> THEN last_successful_content ELSE GENERIC_FALLBACK

\* faulty variant: no final response is synthesized when the rounds are used up
AfterLoop_NoSynthesis(msgs, it) == msgs

\* the code after the loop
AfterLoop(msgs, it) ==
    IF it = max_iterations - 1 THEN Append(msgs, Msg("assistant", CapAnswer(msgs))) ELSE msgs

\* `break`: leave the loop and return
Break(msgs, it, how) ==
    [pc |-> "returned", iteration |-> it, messages |-> AfterLoop(msgs, it), loop_exit |-> how]

\* faulty variant: the loop runs one round too many
Continue_OneMore(msgs, it) ==
    IF it + 1 <= max_iterations
    THEN [pc |-> "llm", iteration |-> it + 1, messages |-> msgs, loop_exit |-> "none"]
    ELSE [pc |-> "returned", iteration |-> it, messages |-> AfterLoop(msgs, it),
          loop_exit |-> "exhausted"]

\* `continue` (or the end of the loop body): next round, or the loop is exhausted
Continue(msgs, it) ==
    IF it + 1 < max_iterations
    THEN [pc |-> "llm", iteration |-> it + 1, messages |-> msgs, loop_exit |-> "none"]
    ELSE [pc |-> "returned", iteration |-> it, messages |-> AfterLoop(msgs, it),
          loop_exit |-> "exhausted"]


(***************************************************************************)
(* The environment: queries, model responses, tool servers                *)
(***************************************************************************)
Queries == {<<"price of BTC">>}

Call(id, name, arguments) == [id |-> id, name |-> name, arguments |-> arguments]

PseudoCall(name, open, args, close) == <<LT, FN, name, open>> \o args \o close

\* The responses the model endpoint may give in a round; n numbers the
\* round's tool-call ids so that ids are unique within the conversation.
RawResponses(n) ==
    { \* plain text
      [content |-> <<"The answer is 42.">>, tool_calls |-> <<>>],
      \* one structured call, no text
      [content |-> <<>>, tool_calls |-> <<Call(10 * n + 1, "search", <<LB, QKV, RB>>)>>],
      \* one structured call with explanatory text
      [content |-> <<"Let me check.">>,
       tool_calls |-> <<Call(10 * n + 1, "price", <<LB, QKV, RB>>)>>],
      \* two structured calls, no text
      [content |-> <<>>,
       tool_calls |-> <<Call(10 * n + 1, "search", <<LB, QKV, RB>>),
                        Call(10 * n + 2, "price", <<LB, QKV, RB>>)>>],
      \* one structured call of a tool with a hyphen in its name
      [content |-> <<>>, tool_calls |-> <<Call(10 * n + 1, "get-price", <<LB, QKV, RB>>)>>],
      \* a structured call whose arguments are not JSON, with explanatory text
      [content |-> <<"Let me research that.">>,
       tool_calls |-> <<Call(10 * n + 1, "search", <<JUNK>>)>>],
      \* text that is only a pseudo-call, brace form
      [content |-> PseudoCall("search", LB, <<QKV>>, <<RB, GT>>), tool_calls |-> <<>>],
      \* text that is only a pseudo-call, parenthesis form
      [content |-> PseudoCall("search", LP, <<QSTR>>, <<RP, GT>>), tool_calls |-> <<>>],
      \* text with an embedded pseudo-call, parenthesis form
      [content |-> <<"Sure. ">> \o PseudoCall("search", LP, <<QSTR>>, <<RP, GT>>),
       tool_calls |-> <<>>],
      \* text with an embedded pseudo-call, brace form
      [content |-> <<"Sure. ">> \o PseudoCall("price", LB, <<QKV>>, <<RB, GT>>),
       tool_calls |-> <<>>] }

\* the texts the model gives when asked without tools
FallbackTexts == {<<"Here is what I know.">>}

NoResponse == [content |-> <<>>, tool_calls |-> <<>>]

(***************************************************************************)
(* Construction and initialize_servers                                    *)
(***************************************************************************)
\* no Discord message is being handled and one coroutine uses the client
NoSuspended == [started |-> FALSE]
HandlerIdle(at) ==
    /\ handler_pc = at
    /\ replies = <<>>
    /\ cleaned = FALSE
    /\ processing_queries = {}

SharedIdle ==
    /\ current = 0
    /\ suspended = NoSuspended
    /\ returned_log = <<>>

\* no process_message call has been made
NoInput == [user_message |-> "", conversation_history |-> <<>>]
NoResult == [is_str |-> FALSE, text |-> ""]
GroqIdle ==
    /\ groq_pc = "none"
    /\ groq_input = NoInput
    /\ groq_requests = <<>>
    /\ groq_responses = <<>>
    /\ executions = <<>>
    /\ groq_result = NoResult

\* DiscordEventHandler(processor): no history, no message
HandlerConstructed ==
    /\ conversation_history = <<>>
    /\ bot_events = <<>>

BotIdle ==
    /\ HandlerConstructed
    /\ handling = <<>>

\* the sections of a research plan
Sections == {"project_info", "technical_fundamentals", "tokenomics", "market_data",
             "community_and_social", "development_activity", "competitors",
             "risks_and_concerns"}

\* self.current_research = {}: no plan
NoResearch ==
    [active |-> FALSE, token_name |-> "", token_ticker |-> "", created_at |-> 0,
     updated_at |-> 0, sections |-> [section \in Sections |-> ""], resources |-> <<>>]

NoOutcome == [tool |-> "", raised |-> FALSE]

\* Web3ResearchMCPServer(): no plan, no resource
ServerConstructed ==
    /\ current_research = NoResearch
    /\ resources = <<>>
    /\ web3_calls = 0
    /\ tool_outcome = NoOutcome

AgentIdle ==
    /\ GroqIdle
    /\ BotIdle
    /\ ServerConstructed

OthersIdle ==
    /\ HandlerIdle("none")
    /\ SharedIdle
    /\ AgentIdle

\* MCPClient(): the state after __init__
Constructed ==
    /\ pc = "new"
    /\ tools_by_server = <<>>
    /\ all_tools = <<>>
    /\ init_success = FALSE
    /\ messages = <<>>
    /\ iteration = 0
    /\ had_tool_failure = FALSE
    /\ is_just_function_text = FALSE
    /\ pending = <<>>
    /\ all_tools_succeeded = TRUE
    /\ have_successful_results = FALSE
    /\ response = NoResponse
    /\ transport_ok = TRUE
    /\ persist_ok = TRUE
    /\ invocations = <<>>
    /\ llm_calls = 0
    /\ fallback_calls = 0
    /\ batches = 0
    /\ marks = [log |-> 0, inv |-> 0]
    /\ loop_exit = "none"
    /\ logged = <<>>

Init ==
    /\ Constructed
    /\ OthersIdle

\* the entries connect_to_server stores, for the servers that connect
RECURSIVE ConnectAll(_, _)
ConnectAll(i, connects) ==
    IF i > Len(ServerConfigs) THEN <<>>
    ELSE (IF connects[i]
          THEN <<[server |-> ServerConfigs[i], tools |-> ServerTools(ServerConfigs[i])]>>
          ELSE <<>>)
         \o ConnectAll(i + 1, connects)

\* self.all_tools: every tool of every server, with its server name
RECURSIVE CombineTools(_)
CombineTools(tbs) ==
    IF tbs = <<>> THEN <<>>
    ELSE [k \in 1..Len(Head(tbs).tools) |->
             [name |-> Head(tbs).tools[k], server_name |-> Head(tbs).server]]
         \o CombineTools(Tail(tbs))

InitializeServers ==
    /\ pc = "new"
    /\ \E connects \in [1..Len(ServerConfigs) -> BOOLEAN] :
          /\ tools_by_server' = ConnectAll(1, connects)
          /\ all_tools' = CombineTools(ConnectAll(1, connects))
          /\ init_success' = (\E i \in 1..Len(ServerConfigs) : connects[i])
    /\ pc' = "idle"
    /\ UNCHANGED <<messages, iteration, had_tool_failure, is_just_function_text, batch_vars, response, transport_ok,
                   persist_ok, invocations, llm_calls, fallback_calls, batches, marks, loop_exit,
                   logged>>
    /\ UNCHANGED other_vars

(***************************************************************************)
(* process_query                                                          *)
(***************************************************************************)
Goto(r) ==
    /\ pc' = r.pc
    /\ iteration' = r.iteration
    /\ messages' = r.messages
    /\ loop_exit' = r.loop_exit

\* entry: the log is seeded with the user message, the loop starts
StartQuery(query) ==
    /\ pc = "idle"
    /\ messages' = <<Msg("user", query)>>
    /\ had_tool_failure' = FALSE
    /\ iteration' = 0
    /\ pc' = "llm"
    /\ \E ok \in BOOLEAN : transport_ok' = ok
    /\ \E ok \in BOOLEAN : persist_ok' = ok
    /\ UNCHANGED <<catalog_vars, is_just_function_text, batch_vars, response,
                   invocations, llm_calls, fallback_calls, batches,
                   marks, loop_exit>>
    /\ logged' = <<>>
    /\ UNCHANGED other_vars

\* the calls found in text, as batch entries
TextCalls(matches) ==
    [i \in 1..Len(matches) |-> Call(0, matches[i].name, matches[i].args)]

\* the assistant message of a round with structured tool calls
StructuredAssistant(content, calls, degraded) ==
    IF degraded
    THEN Msg("assistant", IF CleanContent(content) = <<>> THEN ILL_TRY ELSE CleanContent(content))
    ELSE AssistantWithCalls(CleanContent(content), calls)

\* the first message a round appends for a response that is not a pure call
RoundMessage(resp, degraded) ==
    IF resp.tool_calls # <<>>
    THEN StructuredAssistant(resp.content, resp.tool_calls, degraded)
    ELSE Msg("assistant", resp.content)

\* str(e) of the error os.makedirs raises in log_conversation
MAKEDIRS_ERR == "[Errno 13] Permission denied: 'conversations'"

\* `except Exception as e` of the loop body: the error is reported in the log
\* and one attempt without tools follows
LoopError(msgs, it, err) ==
    [pc |-> "fallback_llm", iteration |-> it,
     messages |-> Append(msgs, Msg("assistant", <<TRY_WITHOUT_TOOLS, err>>)),
     loop_exit |-> "none"]

\* generate_completion returns in the main loop: the response is classified.
\* Every message appended in the loop is followed by log_conversation, which
\* raises when persist_ok is false; the dispatch steps below are reached only
\* in queries where it works.
LLMReturns(raw) ==
    /\ pc = "llm"
    /\ LET resp == generate_completion(raw)
           content == resp.content
           pure == IsJustFunctionText(content)
           matches == FunctionMatches(content)
           log == AfterCompletion(messages, all_tools)
           dispatch == ~pure /\ persist_ok /\ (resp.tool_calls # <<>> \/ matches # <<>>)
       IN  /\ dispatch => batches < MaxBatches
           /\ response' = resp
           /\ is_just_function_text' = pure
           /\ batches' = IF dispatch THEN batches + 1 ELSE batches
           /\ IF dispatch
              THEN \E ok \in BOOLEAN : transport_ok' = ok
              ELSE UNCHANGED transport_ok
           /\ IF pure
              THEN /\ Goto(Continue(log, iteration))
                   /\ UNCHANGED batch_vars
              ELSE IF ~persist_ok
              THEN \* the message of the round is appended, log_conversation raises
                   /\ Goto(LoopError(Append(log, RoundMessage(resp, had_tool_failure)),
                                     iteration, MAKEDIRS_ERR))
                   /\ UNCHANGED batch_vars
              ELSE IF resp.tool_calls # <<>>
              THEN /\ messages' = Append(log,
                          StructuredAssistant(content, resp.tool_calls, had_tool_failure))
                   /\ pending' = resp.tool_calls
                   /\ all_tools_succeeded' = TRUE
                   /\ have_successful_results' = FALSE
                   /\ pc' = "tools"
                   /\ UNCHANGED <<iteration, loop_exit>>
              ELSE IF matches = <<>>
              THEN /\ Goto(Break(Append(log, Msg("assistant", content)), iteration, "plain"))
                   /\ UNCHANGED batch_vars
              ELSE /\ messages' = Append(log, Msg("assistant", content))
                   /\ pending' = TextCalls(matches)
                   /\ all_tools_succeeded' = TRUE
                   /\ have_successful_results' = FALSE
                   /\ pc' = "text_tools"
                   /\ UNCHANGED <<iteration, loop_exit>>
    /\ llm_calls' = llm_calls + 1
    /\ marks' = [log |-> Len(messages), inv |-> Len(invocations)]
    /\ logged' = IF IsJustFunctionText(generate_completion(raw).content) THEN logged
                 ELSE Append(AfterCompletion(messages, all_tools),
                             RoundMessage(generate_completion(raw), had_tool_failure))
    /\ UNCHANGED <<catalog_vars, had_tool_failure, persist_ok, invocations, fallback_calls>>
    /\ UNCHANGED other_vars

\* generate_completion raises in the main loop
LLMRaises ==
    /\ pc = "llm"
    /\ Goto(LoopError(messages, iteration, "Connection error."))
    /\ llm_calls' = llm_calls + 1
    /\ marks' = [log |-> Len(messages), inv |-> Len(invocations)]
    /\ UNCHANGED <<catalog_vars, had_tool_failure, is_just_function_text, batch_vars, response, transport_ok,
                   persist_ok, invocations, fallback_calls, batches, logged>>
    /\ UNCHANGED other_vars

\* the attempt without tools returns
FallbackReturns(text) ==
    /\ pc = "fallback_llm"
    /\ Goto(Break(Append(messages, Msg("assistant", text)), iteration, "fallback_ok"))
    /\ fallback_calls' = fallback_calls + 1
    /\ UNCHANGED <<catalog_vars, had_tool_failure, is_just_function_text, batch_vars, response, transport_ok,
                   persist_ok, invocations, llm_calls, batches, marks, logged>>
    /\ UNCHANGED other_vars

\* the attempt without tools raises
FallbackRaises ==
    /\ pc = "fallback_llm"
    /\ Goto(Break(Append(messages, Msg("assistant", APOLOGY)), iteration, "fallback_fail"))
    /\ fallback_calls' = fallback_calls + 1
    /\ UNCHANGED <<catalog_vars, had_tool_failure, is_just_function_text, batch_vars, response, transport_ok,
                   persist_ok, invocations, llm_calls, batches, marks, logged>>
    /\ UNCHANGED other_vars


\* One requested call: parse the arguments, resolve the server, call the
\* tool, which answers `reply` if the transport works.
\*   called : session.call_tool was reached
\*   answered: it returned
\*   ok     : and its result was formatted without an exception
\*   content: the tool result, or the text of the error
\*   raw    : what the server answered (result.content)
\*   result : what _format_tool_result made of it
AttemptWith(tool_name, args_text, tbs, up, reply) ==
    LET parsed == ParseToolArgs(args_text)
        server_name == _find_server_for_tool(tbs, tool_name)
        called == parsed.ok /\ server_name # ""
        result == IF called /\ up THEN _format_tool_result(reply) ELSE Returns(<<>>)
        \* content[:100] in the log line after the call fails on a value that is no str
        formatted == ~result.raises /\ result.is_str
    IN  [called  |-> called,
         answered |-> called /\ up,
         ok      |-> called /\ up /\ formatted,
         server  |-> server_name,
         args    |-> parsed.val,
         raw     |-> IF called /\ up THEN reply ELSE NoText,
         result  |-> result,
         content |-> IF ~parsed.ok THEN <<JSONERR>>
                     ELSE IF server_name = "" THEN NotFoundText(tool_name)
                     ELSE IF ~up THEN ToolErrorText(tool_name, <<"timeout">>)
                     ELSE IF result.raises THEN ToolErrorText(tool_name, result.value)
                     ELSE IF ~result.is_str
                          THEN ToolErrorText(tool_name, <<"object is not subscriptable">>)
                     ELSE result.value]

\* the same, the server answering what the tool answers
Attempt(tool_name, args_text, tbs, up) ==
    AttemptWith(tool_name, args_text, tbs, up,
                ToolReply(_find_server_for_tool(tbs, tool_name), tool_name))

Invocation(tool_name, a) ==
    [server |-> a.server, tool |-> tool_name, args |-> a.args, ok |-> a.ok,
     content |-> a.content, answered |-> a.answered, raw |-> a.raw, result |-> a.result]

\* faulty variant: the result keeps the tool format after a failed batch
StructuredResult_AlwaysTool(call, a, degraded) ==
    ToolMsg(call.id, call.name, IF a.called THEN a.content ELSE <<"Error: ">> \o a.content)

\* the result message of a structured call
StructuredResult(call, a, degraded) ==
    IF a.called
    THEN IF degraded
         THEN Msg("user", <<"Tool ", call.name, " returned: ">> \o a.content)
         ELSE ToolMsg(call.id, call.name, a.content)
    ELSE IF degraded
         THEN Msg("user", <<"Error using tool ", call.name, ": ">> \o a.content)
         ELSE ToolMsg(call.id, call.name, <<"Error: ">> \o a.content)

\* the result message of a call found in text
TextResult(call, a) ==
    IF a.called
    THEN Msg("user", <<"Tool '", call.name, "' returned: ">> \o a.content)
    ELSE Msg("user", <<"Error using tool '", call.name, "': ">> \o a.content)

\* after a structured batch: final answer from the most recent clean tool
\* message if useful data came back, otherwise the next round
AfterStructuredBatch(msgs, it, useful) ==
    LET t == LastOf({i \in 1..Len(msgs) : IsCleanToolMsg(msgs[i])})
    IN  IF useful /\ t # 0 /\ msgs[t].content # <<>>
        THEN Break(Append(msgs, Msg("assistant", msgs[t].content)), it, "success")
        ELSE Continue(msgs, it)

\* one iteration of `for tool_call in response.choices[0].message.tool_calls`,
\* the tool server answering `reply` if the transport works
ToolCallReplies(reply) ==
    /\ pc = "tools"
    /\ LET call == Head(pending)
           a == AttemptWith(call.name, call.arguments, tools_by_server, transport_ok, reply)
           msgs == Append(messages, StructuredResult(call, a, had_tool_failure))
           succeeded == all_tools_succeeded /\ a.ok
           useful == have_successful_results \/ (a.ok /\ UsefulData(a.content))
       IN  /\ invocations' = IF a.called THEN Append(invocations, Invocation(call.name, a))
                             ELSE invocations
           /\ all_tools_succeeded' = succeeded
           /\ have_successful_results' = useful
           /\ pending' = Tail(pending)
           /\ logged' = msgs
           /\ IF Tail(pending) # <<>>
              THEN /\ messages' = msgs
                   /\ \E ok \in BOOLEAN : transport_ok' = ok
                   /\ UNCHANGED <<pc, iteration, loop_exit, had_tool_failure>>
              ELSE /\ had_tool_failure' = (had_tool_failure \/ ~succeeded)
                   /\ Goto(AfterStructuredBatch(msgs, iteration, useful))
                   /\ UNCHANGED transport_ok
    /\ UNCHANGED <<catalog_vars, is_just_function_text, response, persist_ok,
                   llm_calls, fallback_calls, batches, marks>>
    /\ UNCHANGED other_vars

\* the same, the server answering what the tool answers
ToolCallStep ==
    /\ pc = "tools"
    /\ ToolCallReplies(ToolReply(_find_server_for_tool(tools_by_server, Head(pending).name),
                                 Head(pending).name))

\* one iteration of `for tool_name, tool_args_str in function_matches`
TextCallStep ==
    /\ pc = "text_tools"
    /\ LET call == Head(pending)
           a == Attempt(call.name, Strip(call.arguments), tools_by_server, transport_ok)
           msgs == Append(messages, TextResult(call, a))
           succeeded == all_tools_succeeded /\ a.ok
           useful == have_successful_results
                     \/ (a.ok /\ a.content # <<>> /\ ~StartsWith(a.content, ErrorStartToks))
       IN  /\ invocations' = IF a.called THEN Append(invocations, Invocation(call.name, a))
                             ELSE invocations
           /\ all_tools_succeeded' = succeeded
           /\ have_successful_results' = useful
           /\ pending' = Tail(pending)
           /\ logged' = msgs
           /\ IF a.called /\ is_just_function_text /\ useful
              THEN \* the direct return of the tool result
                   /\ messages' = Append(msgs, Msg("assistant", a.content))
                   /\ pc' = "returned"
                   /\ loop_exit' = "direct"
                   /\ UNCHANGED <<iteration, had_tool_failure, transport_ok>>
              ELSE IF Tail(pending) # <<>>
              THEN /\ messages' = msgs
                   /\ \E ok \in BOOLEAN : transport_ok' = ok
                   /\ UNCHANGED <<pc, iteration, loop_exit, had_tool_failure>>
              ELSE /\ had_tool_failure' = (had_tool_failure \/ ~succeeded)
                   /\ Goto(Continue(msgs, iteration))
                   /\ UNCHANGED transport_ok
    /\ UNCHANGED <<catalog_vars, is_just_function_text, response, persist_ok,
                   llm_calls, fallback_calls, batches, marks>>
    /\ UNCHANGED other_vars

Next ==
    \/ InitializeServers
    \/ \E query \in Queries : StartQuery(query)
    \/ \E raw \in RawResponses(batches + 1) : LLMReturns(raw)
    \/ LLMRaises
    \/ \E text \in FallbackTexts : FallbackReturns(text)
    \/ FallbackRaises
    \/ ToolCallStep
    \/ TextCallStep

Spec == Init /\ [][Next]_vars

(***************************************************************************)
(* The classification of response texts, over a larger set of texts       *)
(***************************************************************************)
\* texts built around one pseudo-call: what stands before it, its form, its
\* name, its arguments, its closing, and what follows it
ProbeTexts ==
    { pre \o head \o <<name, open>> \o args \o close \o suf :
        pre \in {<<>>, <<"Sure. ">>, <<NL>>},
        head \in {<<LT, FN>>, <<FN>>},
        name \in {"search", "get-price"},
        open \in {LB, LP},
        args \in {<<>>, <<QKV>>, <<QSTR>>},
        close \in {<<RB, GT>>, <<RP, GT>>, <<RP, ENDTAG>>, <<RB>>, <<RP>>},
        suf \in {<<>>, <<NL>>, <<" and more">>,
                 <<" ", LT, FN, "price", LB, QKV, RB, GT>>} }

\* process_query has seeded the log and is about to query the model
ClassifyInit ==
    /\ pc = "llm"
    /\ tools_by_server = ConnectAll(1, [i \in 1..Len(ServerConfigs) |-> TRUE])
    /\ all_tools = CombineTools(tools_by_server)
    /\ init_success = TRUE
    /\ \E query \in Queries : messages = <<Msg("user", query)>>
    /\ iteration = 0
    /\ had_tool_failure = FALSE
    /\ is_just_function_text = FALSE
    /\ pending = <<>>
    /\ all_tools_succeeded = TRUE
    /\ have_successful_results = FALSE
    /\ response = NoResponse
    /\ transport_ok = TRUE
    /\ persist_ok = TRUE
    /\ invocations = <<>>
    /\ llm_calls = 0
    /\ fallback_calls = 0
    /\ batches = 0
    /\ marks = [log |-> 0, inv |-> 0]
    /\ loop_exit = "none"
    /\ logged = <<>>
    /\ OthersIdle

\* the first response of the model is one of the probe texts
ClassifyNext ==
    /\ llm_calls = 0
    /\ \E text \in ProbeTexts : LLMReturns([content |-> text, tool_calls |-> <<>>])

SpecClassify == ClassifyInit /\ [][ClassifyNext]_vars

(***************************************************************************)
(* One structured call, over a larger set of tool results                 *)
(***************************************************************************)
\* the most items a list result has
MaxItems == 2

\* a "text" key or attribute: absent, a str, or a value that is no str
TextFields ==
    { [has |-> FALSE, str |-> TRUE, text |-> <<>>],
      [has |-> TRUE, str |-> TRUE, text |-> <<"BTC is $67,000">>],
      [has |-> TRUE, str |-> FALSE, text |-> <<"5">>] }

Shape(kind, type, field) ==
    [NoText EXCEPT !.kind = kind, !.type = type, !.has_text = field.has,
                   !.str_text = field.str, !.text = field.text]

\* results that are no list: strings, mappings (error-tagged or not, with or
\* without a text field), arbitrary objects
ItemShapes ==
    { Shape("dict", type, field) : type \in {"error", "text"}, field \in TextFields }
    \cup { Shape("object", "", field) : field \in TextFields }
    \cup { [NoText EXCEPT !.kind = "str", !.text = <<"plain text">>] }

\* the raw results a tool server may answer
RawContents ==
    {NoText} \cup ItemShapes
    \cup { List(items) : items \in UNION { [1..n -> ItemShapes] : n \in 0..MaxItems } }

\* the round of one structured call, the tool server answering any raw result
FormatNext ==
    \/ /\ llm_calls = 0
       /\ LLMReturns([content |-> <<"Let me check.">>,
                      tool_calls |-> <<Call(11, "price", <<LB, QKV, RB>>)>>])
    \/ \E reply \in RawContents : ToolCallReplies(reply)

SpecFormat == ClassifyInit /\ [][FormatNext]_vars

(***************************************************************************)
(* on_message of the Discord bot: a client of its own for every message   *)
(***************************************************************************)
MESSAGE_ID == "42_1001"
HELLO_REPLY == <<"Hello! How can I help you today?">>
SETUP_FAILED_REPLY ==
    <<"Sorry, I couldn't connect to my core services to process your request.">>
NO_RESPONSE_REPLY ==
    <<"I'm sorry, I'm having trouble processing that request. Could you try asking in a different way?">>

\* what the message says once the mention of the bot is removed
MentionTexts == {<<>>} \cup Queries

\* a message that mentions the bot has arrived; the client is not yet created
DiscordInit ==
    /\ Constructed
    /\ HandlerIdle("received")
    /\ SharedIdle
    /\ AgentIdle

\* up to the creation of the client; a message that is only the mention is
\* greeted, and the `finally` finds no client to clean up
OnMessage(query) ==
    /\ handler_pc = "received"
    /\ IF query = <<>>
       THEN /\ replies' = Append(replies, HELLO_REPLY)
            /\ processing_queries' = processing_queries \ {MESSAGE_ID}
            /\ handler_pc' = "finished"
       ELSE /\ processing_queries' = processing_queries \cup {MESSAGE_ID}
            /\ handler_pc' = "handling"
            /\ UNCHANGED replies
    /\ UNCHANGED <<client_vars, cleaned, shared_vars, agent_vars>>

\* `await current_mcp_client_instance.initialize_servers()`
HandlerInitialize ==
    /\ handler_pc = "handling"
    /\ InitializeServers

\* the `finally` of on_message: cleanup() raises what closing the exit stack
\* raises, and the id is then not discarded
Finally(cleanup_ok) ==
    /\ cleaned' = TRUE
    /\ processing_queries' = IF cleanup_ok THEN processing_queries \ {MESSAGE_ID}
                             ELSE processing_queries
    /\ handler_pc' = "finished"

\* faulty variant: the early return skips the cleanup of the client
SetupFailed_NoCleanup ==
    /\ handler_pc = "handling"
    /\ pc = "idle"
    /\ ~init_success
    /\ replies' = Append(replies, SETUP_FAILED_REPLY)
    /\ processing_queries' = processing_queries \ {MESSAGE_ID}
    /\ handler_pc' = "finished"
    /\ UNCHANGED <<client_vars, cleaned, shared_vars, agent_vars>>

\* initialize_servers returned False: the reply, the return, the `finally`
SetupFailed ==
    /\ handler_pc = "handling"
    /\ pc = "idle"
    /\ ~init_success
    /\ replies' = Append(replies, SETUP_FAILED_REPLY)
    /\ \E cleanup_ok \in BOOLEAN : Finally(cleanup_ok)
    /\ UNCHANGED <<client_vars, shared_vars, agent_vars>>

\* initialize_servers returned True: process_query is called
HandlerProcess(query) ==
    /\ handler_pc = "handling"
    /\ init_success
    /\ StartQuery(query)

\* _get_latest_assistant_message: the content of the last assistant message,
\* "" if there is none
_get_latest_assistant_message(msgs) ==
    LET a == LastOf({i \in 1..Len(msgs) : msgs[i].role = "assistant"})
    IN  IF a = 0 THEN <<>> ELSE msgs[a].content

\* tokens that match [\w-]+ as a whole
HyphenWord == Word \cup {"get-price"}

\* function_patterns of on_message: the five forms of process_query (with \s*
\* after the name, which is empty in a text without a blank there) and the
\* tagged parenthesis form with a name of [\w-]+. The last three patterns
\* need white space after the name, which no text of the lexicon has.
HandlerPatterns ==
    << [pre |-> <<LT, FN>>, open |-> LB, close |-> <<RB, GT>>, names |-> Word],
       [pre |-> <<LT, FN>>, open |-> LP, close |-> <<RP, GT>>, names |-> Word],
       [pre |-> <<LT, FN>>, open |-> LP, close |-> <<RP, ENDTAG>>, names |-> Word],
       [pre |-> <<FN>>, open |-> LP, close |-> <<RP>>, names |-> Word],
       [pre |-> <<FN>>, open |-> LB, close |-> <<RB>>, names |-> Word],
       [pre |-> <<LT, FN>>, open |-> LP, close |-> <<RP, ENDTAG>>, names |-> HyphenWord] >>

\* `pre` (name) `open` at position i, the name being one of `names`
OpensWith(s, i, pre, open, names) ==
    /\ StartsAt(s, i, pre)
    /\ i + Len(pre) + 1 <= Len(s)
    /\ s[i + Len(pre)] \in names
    /\ s[i + Len(pre) + 1] = open

\* re.findall(pattern, s), scanning from position i
RECURSIVE PatternMatches(_, _, _)
PatternMatches(p, s, i) ==
    IF i > Len(s) THEN <<>>
    ELSE LET a == i + Len(p.pre) + 2
             j == IF OpensWith(s, i, p.pre, p.open, p.names)
                  THEN LazyClose(s, a, p.close) ELSE 0
         IN  IF j > 0
             THEN <<[name |-> s[i + Len(p.pre)], args |-> SubSeq(s, a, j - 1)]>>
                  \o PatternMatches(p, s, j + Len(p.close))
             ELSE PatternMatches(p, s, i + 1)

\* any(re.match(f'^{pattern}$', assistant_response.strip()))
is_just_function_call(s) ==
    \E k \in 1..Len(HandlerPatterns) :
        LET p == HandlerPatterns[k]
        IN  /\ OpensWith(Strip(s), 1, p.pre, p.open, p.names)
            /\ ClosesAtEnd(Strip(s), Len(p.pre) + 3, p.close)

contains_function_call(s) ==
    \/ is_just_function_call(s)
    \/ \E k \in 1..Len(HandlerPatterns) : PatternMatches(HandlerPatterns[k], s, 1) # <<>>

\* re.sub(re.escape(pat), rep, s), scanning from position i
RECURSIVE ReplaceAll(_, _, _, _)
ReplaceAll(s, i, pat, rep) ==
    IF i > Len(s) THEN <<>>
    ELSE IF StartsAt(s, i, pat) THEN rep \o ReplaceAll(s, i + Len(pat), pat, rep)
    ELSE <<s[i]>> \o ReplaceAll(s, i + 1, pat, rep)

\* patterns_to_try, for the name and the argument text as wrapped and cleaned
PatternsToTry(tool_name, tool_args_str) ==
    << <<LT, FN, tool_name, LP>> \o tool_args_str \o <<RP, ENDTAG>>,
       <<LT, FN, tool_name, LB>> \o tool_args_str \o <<RB, GT>>,
       <<LT, FN, tool_name, LP>> \o tool_args_str \o <<RP, GT>>,
       <<LT, FN, tool_name, " ">> \o tool_args_str \o <<ENDTAG>>,
       <<FN, tool_name, LP>> \o tool_args_str \o <<RP>>,
       <<FN, tool_name, LB>> \o tool_args_str \o <<RB>> >>

\* for pattern_to_try in patterns_to_try: assistant_response = re.sub(...)
RECURSIVE SubAll(_, _, _, _)
SubAll(s, pats, k, rep) ==
    IF k > Len(pats) THEN s ELSE SubAll(ReplaceAll(s, 1, pats[k], rep), pats, k + 1, rep)

\* re.match(r'^<function=.*>$', s.strip()) or the same with </function>
WholeIsFunctionTag(s) ==
    LET t == Strip(s)
    IN  /\ StartsAt(t, 1, <<LT, FN>>)
        /\ t[Len(t)] \in {GT, ENDTAG}
        /\ \A k \in 1..Len(t) : t[k] # NL

\* error_msg = f"Error executing {tool_name}: {str(e)}"
HandlerErrorText(tool_name, a) ==
    <<"Error executing ", tool_name, ": ">> \o
    (IF ~a.called THEN (IF a.server = "" /\ a.content # <<JSONERR>> THEN <<"None">>
                        ELSE <<JSONERR>>)
     ELSE IF ~a.answered THEN <<"timeout">>
     ELSE IF a.result.raises THEN a.result.value
     ELSE <<"expected str, bytes or os.PathLike object">>)

\* one `for tool_name, tool_args_str in matches` iteration: the handler calls
\* the tool itself and puts the result (or the error text) where the call
\* stood; if nothing was replaced and the response is one function call, the
\* result becomes the response
HandleMatch(st, m, just, tbs, up) ==
    LET a == Attempt(m.name, m.args, tbs, up)
        text == IF a.ok THEN a.result.value ELSE HandlerErrorText(m.name, a)
        replaced == SubAll(st.resp, PatternsToTry(m.name, CleanUp(WrapArgs(m.args))), 1, text)
    IN  [resp  |-> IF replaced # st.resp THEN replaced
                   ELSE IF WholeIsFunctionTag(st.resp) \/ just THEN text
                   ELSE st.resp,
         calls |-> IF a.called THEN Append(st.calls, Invocation(m.name, a)) ELSE st.calls]

RECURSIVE HandleMatches(_, _, _, _, _, _)
HandleMatches(st, ms, k, just, tbs, up) ==
    IF k > Len(ms) THEN st
    ELSE HandleMatches(HandleMatch(st, ms[k], just, tbs, up), ms, k + 1, just, tbs, up)

\* `for pattern in function_patterns`: the matches are searched in the
\* response as the earlier patterns left it
RECURSIVE HandlePatterns(_, _, _, _, _)
HandlePatterns(st, p, just, tbs, up) ==
    IF p > Len(HandlerPatterns) THEN st
    ELSE HandlePatterns(
             HandleMatches(st, PatternMatches(HandlerPatterns[p], st.resp, 1), 1, just, tbs, up),
             p + 1, just, tbs, up)

\* what on_message makes of the last assistant message before it sends it
PostProcess(assistant_response, tbs, up) ==
    IF contains_function_call(assistant_response)
    THEN HandlePatterns([resp |-> assistant_response, calls |-> <<>>], 1,
                        is_just_function_call(assistant_response), tbs, up)
    ELSE [resp |-> assistant_response, calls |-> <<>>]

\* process_query returned: the last assistant message is post-processed and
\* sent (the texts of the lexicon are shorter than 2000 characters: one
\* reply), then the `finally`
Deliver ==
    /\ handler_pc = "handling"
    /\ pc = "returned"
    /\ \E up \in BOOLEAN :
          LET assistant_response == _get_latest_assistant_message(messages)
              out == PostProcess(assistant_response, tools_by_server, up)
          IN  /\ replies' = Append(replies, IF assistant_response = <<>>
                                            THEN NO_RESPONSE_REPLY ELSE out.resp)
              /\ invocations' = invocations \o out.calls
    /\ \E cleanup_ok \in BOOLEAN : Finally(cleanup_ok)
    /\ UNCHANGED <<pc, catalog_vars, messages, iteration, had_tool_failure,
                   is_just_function_text, batch_vars, response, transport_ok, persist_ok,
                   llm_calls, fallback_calls, batches, marks, loop_exit, logged>>
    /\ UNCHANGED <<shared_vars, agent_vars>>

\* answers of the model that hold a call of a tool with a hyphen in its name
\* in the tagged parenthesis form, which process_query takes for plain text
HandlerResponses ==
    { [content |-> <<LT, FN, "get-price", LP, QSTR, RP, ENDTAG>>, tool_calls |-> <<>>],
      [content |-> <<"Sure. ", LT, FN, "get-price", LP, LB, QKV, RB, RP, ENDTAG>>,
       tool_calls |-> <<>>] }

\* the answers of the model while on_message waits for process_query: a
\* plain text, a structured call with or without text, a text with a call
\* process_query dispatches, and the two above
DiscordResponses(n) ==
    {r \in RawResponses(n) :
        /\ Len(r.tool_calls) <= 1
        /\ r.content \in {<<"The answer is 42.">>, <<"Let me check.">>, <<>>,
                          <<"Sure. ">> \o PseudoCall("search", LP, <<QSTR>>, <<RP, GT>>)}}
    \cup HandlerResponses

\* on_message, from the mention to the end of its `finally`
DiscordNext ==
    \/ \E query \in MentionTexts : OnMessage(query)
    \/ HandlerInitialize
    \/ SetupFailed
    \/ \E query \in Queries : HandlerProcess(query)
    \/ Deliver
    \/ \E raw \in DiscordResponses(batches + 1) : LLMReturns(raw)
    \/ LLMRaises
    \/ \E text \in FallbackTexts : FallbackReturns(text)
    \/ FallbackRaises
    \/ ToolCallStep
    \/ TextCallStep

SpecDiscord == DiscordInit /\ [][DiscordNext]_vars

(***************************************************************************)
(* Two queries on one client: on_message of discord/events.py calls       *)
(* process_query of the client it shares with every other message         *)
(***************************************************************************)
SharedQueries == <<<<"price of BTC">>, <<"price of ETH">>>>

\* the local variables of process_query
Locals ==
    [pc |-> pc, iteration |-> iteration, had_tool_failure |-> had_tool_failure,
     is_just_function_text |-> is_just_function_text, pending |-> pending,
     all_tools_succeeded |-> all_tools_succeeded,
     have_successful_results |-> have_successful_results,
     response |-> response, loop_exit |-> loop_exit]

\* a coroutine that has not yet entered process_query
NotStarted ==
    [pc |-> "idle", iteration |-> 0, had_tool_failure |-> FALSE,
     is_just_function_text |-> FALSE, pending |-> <<>>,
     all_tools_succeeded |-> TRUE, have_successful_results |-> FALSE,
     response |-> NoResponse, loop_exit |-> "none"]

\* both servers are connected, the first message is about to be processed
SharedInit ==
    /\ pc = "idle"
    /\ tools_by_server = ConnectAll(1, [i \in 1..Len(ServerConfigs) |-> TRUE])
    /\ all_tools = CombineTools(tools_by_server)
    /\ init_success = TRUE
    /\ messages = <<>>
    /\ iteration = 0
    /\ had_tool_failure = FALSE
    /\ is_just_function_text = FALSE
    /\ pending = <<>>
    /\ all_tools_succeeded = TRUE
    /\ have_successful_results = FALSE
    /\ response = NoResponse
    /\ transport_ok = TRUE
    /\ persist_ok = TRUE
    /\ invocations = <<>>
    /\ llm_calls = 0
    /\ fallback_calls = 0
    /\ batches = 0
    /\ marks = [log |-> 0, inv |-> 0]
    /\ loop_exit = "none"
    /\ logged = <<>>
    /\ HandlerIdle("none")
    /\ current = 1
    /\ suspended = NotStarted
    /\ returned_log = <<<<>>, <<>>>>
    /\ AgentIdle

\* what the model answers in these queries
SharedResponses(n) ==
    { [content |-> <<"The answer is 42.">>, tool_calls |-> <<>>],
      [content |-> <<"Let me check.">>,
       tool_calls |-> <<Call(10 * n + 1, "price", <<LB, QKV, RB>>)>>] }

\* The running coroutine is suspended where it awaits something that is not
\* ready: session.call_tool (the model is called synchronously, and
\* log_conversation awaits nothing), or the Discord calls of on_message before
\* and after process_query.
AtAwait ==
    \/ pc \in {"idle", "done"}
    \/ /\ pc = "tools"
       /\ Attempt(Head(pending).name, Head(pending).arguments, tools_by_server, TRUE).called
    \/ /\ pc = "text_tools"
       /\ Attempt(Head(pending).name, Strip(Head(pending).arguments), tools_by_server, TRUE).called

\* the event loop runs the other coroutine: the local variables change
\* hands, self.messages does not
Switch ==
    /\ AtAwait
    /\ current' = 3 - current
    /\ suspended' = Locals
    /\ pc' = suspended.pc
    /\ iteration' = suspended.iteration
    /\ had_tool_failure' = suspended.had_tool_failure
    /\ is_just_function_text' = suspended.is_just_function_text
    /\ pending' = suspended.pending
    /\ all_tools_succeeded' = suspended.all_tools_succeeded
    /\ have_successful_results' = suspended.have_successful_results
    /\ response' = suspended.response
    /\ loop_exit' = suspended.loop_exit
    /\ UNCHANGED <<catalog_vars, messages, transport_ok, persist_ok, invocations, llm_calls,
                   fallback_calls, batches, marks, logged, handler_vars, returned_log, agent_vars>>

\* `return self.messages`: on_message receives the log
ReturnLog ==
    /\ pc = "returned"
    /\ returned_log' = [returned_log EXCEPT ![current] = messages]
    /\ pc' = "done"
    /\ UNCHANGED <<catalog_vars, messages, iteration, had_tool_failure, is_just_function_text,
                   batch_vars, response, transport_ok, persist_ok, invocations, llm_calls,
                   fallback_calls, batches, marks, loop_exit, logged, handler_vars, current, suspended,
                   agent_vars>>

SharedNext ==
    \/ StartQuery(SharedQueries[current])
    \/ \E raw \in SharedResponses(batches + 1) : LLMReturns(raw)
    \/ \E text \in FallbackTexts : FallbackReturns(text)
    \/ ToolCallStep
    \/ Switch
    \/ ReturnLog

SpecShared == SharedInit /\ [][SharedNext]_vars

(***************************************************************************)
(* GroqClient.process_message (agentzer0/llm/groq_client.py)              *)
(***************************************************************************)
MaxHistory == 2

ChatMsg(role, name, content) ==
    [role |-> role, name |-> name, content |-> content, tool_calls |-> <<>>, tool_call_id |-> ""]

\* self.system_message
SYSTEM_MESSAGE == ChatMsg("system", "", "You are a helpful assistant in a Discord server, ...")

UserMessages == {"Hello", "Use a tool"}

\* what a conversation history can hold: the messages of users, as the
\* handler stores them, and answers of the assistant
HistoryMessages ==
    {ChatMsg("user", "TestUser", u) : u \in UserMessages}
        \cup {ChatMsg("assistant", "", "Hello, human!")}

Histories == UNION {[1..n -> HistoryMessages] : n \in 0..MaxHistory}

\* the content of a response: a text or None
Text(t) == [is_str |-> TRUE, text |-> t]
None == [is_str |-> FALSE, text |-> ""]

\* a tool call named '<server>.<tool>'
GroqToolCall == [id |-> "test_id", server |-> "test_server", tool |-> "test_tool",
                 arguments |-> "{\"param\": \"value\"}"]

\* chat_completion.choices[0].message
APIResponses ==
    { [content |-> Text("Test response"), tool_calls |-> <<>>],
      [content |-> Text("I'll check that for you."), tool_calls |-> <<GroqToolCall>>],
      [content |-> None, tool_calls |-> <<GroqToolCall>>],
      [content |-> Text("Based on the tool result, here's my answer."), tool_calls |-> <<>>] }

\* the message list of the request: the system message, the history, and the
\* user message
GroqMessages(user_message, history) ==
    <<SYSTEM_MESSAGE>> \o history \o <<ChatMsg("user", "", user_message)>>

GroqInit ==
    /\ Constructed
    /\ HandlerIdle("none")
    /\ SharedIdle
    /\ AgentIdle

(***************************************************************************)
(* DiscordEventHandler.handle_message (agentzer0/discord_bot/events.py)   *)
(***************************************************************************)
MaxMessages == 2

CHANNEL_ID == "12345"
HISTORY_LIMIT == 20
CHUNK == 2000

\* the messages that arrive, all in one channel
MessageIds == 1..MaxMessages
ContentOf(m) == <<"Hello, bot!", m>>

\* what the processor answers to message m, and its length
Answer(m, length) == [to |-> m, length |-> length]
NoAnswer == Answer(0, 0)
AnswerLengths == {13, 2001}
Chunks(length) == (length + CHUNK - 1) \div CHUNK

UserEntry(m) == [role |-> "user", name |-> "TestUser", content |-> ContentOf(m)]
AssistantEntry(answer) == [role |-> "assistant", name |-> "", content |-> answer]

\* self.conversation_history[channel_id], [] for a channel not yet seen
HistoryOf(channel_id) ==
    IF channel_id \in DOMAIN conversation_history THEN conversation_history[channel_id]
    ELSE <<>>

\* self.conversation_history[channel_id] = history
WithHistory(channel_id, history) ==
    [c \in DOMAIN conversation_history \cup {channel_id} |->
        IF c = channel_id THEN history ELSE conversation_history[c]]

\* history[-20:]
LastEntries(history, n) ==
    IF Len(history) > n THEN SubSeq(history, Len(history) - n + 1, Len(history)) ELSE history

\* what the channel and the processor see of message m: "send_thinking",
\* "processor" (with the history passed), "delete_thinking", "send_response"
\* (one per part), "send_error"
Event(op, m, history) == [op |-> op, m |-> m, history |-> history]

At(m, at) == [handling EXCEPT ![m].at = at]

\* the history of the channel after n earlier messages were handled one after
\* another, each answered: n user entries and n assistant entries in turn
EarlierHistory(n) ==
    [i \in 1..(2 * n) |->
        IF i % 2 = 1 THEN UserEntry((i + 1) \div 2 - n - 1)
        ELSE AssistantEntry(Answer(i \div 2 - n - 1, 13))]

\* how many messages the handler has handled in the channel before the ones
\* followed here: none, or enough for the history to be near its limit
EarlierExchanges == {0, HISTORY_LIMIT \div 2 - 1, HISTORY_LIMIT \div 2}

BotInit ==
    /\ Constructed
    /\ HandlerIdle("none")
    /\ SharedIdle
    /\ GroqIdle
    /\ ServerConstructed
    /\ \E n \in EarlierExchanges :
          conversation_history = IF n = 0 THEN <<>>
                                 ELSE [c \in {CHANNEL_ID} |-> EarlierHistory(n)]
    /\ bot_events = <<>>
    /\ handling = [m \in MessageIds |-> [at |-> "arrived", response |-> NoAnswer, chunks |-> 0]]

\* up to `async with message.channel.typing()`: the user message is added
\* to the history of the channel, which is cut to its last 20 entries
Enter(m) ==
    /\ handling[m].at = "arrived"
    /\ conversation_history' =
          WithHistory(CHANNEL_ID, LastEntries(Append(HistoryOf(CHANNEL_ID), UserEntry(m)),
                                              HISTORY_LIMIT))
    /\ handling' = At(m, "typing")
    /\ UNCHANGED <<bot_events, non_bot_vars>>

\* `await message.channel.send("Thinking...")` is issued
SendThinking(m) ==
    /\ handling[m].at = "typing"
    /\ bot_events' = Append(bot_events, Event("send_thinking", m, <<>>))
    /\ handling' = At(m, "thinking")
    /\ UNCHANGED <<conversation_history, non_bot_vars>>

\* the send has returned: the processor is called with the content of the
\* message and the history of the channel
CallProcessor(m) ==
    /\ handling[m].at = "thinking"
    /\ bot_events' = Append(bot_events, Event("processor", m, HistoryOf(CHANNEL_ID)))
    /\ handling' = At(m, "processing")
    /\ UNCHANGED <<conversation_history, non_bot_vars>>

\* the processor returns: `await thinking_msg.delete()` is issued
ProcessorReturns(m, length) ==
    /\ handling[m].at = "processing"
    /\ bot_events' = Append(bot_events, Event("delete_thinking", m, <<>>))
    /\ handling' = [handling EXCEPT ![m] = [at |-> "deleting",
                                             response |-> Answer(m, length),
                                             chunks |-> Chunks(length)]]
    /\ UNCHANGED <<conversation_history, non_bot_vars>>

\* the processor raises: the handler reports the error
ProcessorRaises(m) ==
    /\ handling[m].at = "processing"
    /\ bot_events' = Append(bot_events, Event("send_error", m, <<>>))
    /\ handling' = At(m, "failed")
    /\ UNCHANGED <<conversation_history, non_bot_vars>>

\* the deletion has returned: the response is added to the history and its
\* first (or only) part is sent
Respond(m) ==
    /\ handling[m].at = "deleting"
    /\ conversation_history' =
          WithHistory(CHANNEL_ID, Append(HistoryOf(CHANNEL_ID), AssistantEntry(handling[m].response)))
    /\ bot_events' = Append(bot_events, Event("send_response", m, <<>>))
    /\ handling' = [handling EXCEPT ![m].chunks = @ - 1,
                                    ![m].at = IF handling[m].chunks = 1 THEN "done" ELSE "chunks"]
    /\ UNCHANGED non_bot_vars

\* a further part of a response of more than 2000 characters is sent
SendChunk(m) ==
    /\ handling[m].at = "chunks"
    /\ bot_events' = Append(bot_events, Event("send_response", m, <<>>))
    /\ handling' = [handling EXCEPT ![m].chunks = @ - 1,
                                    ![m].at = IF handling[m].chunks = 1 THEN "done" ELSE "chunks"]
    /\ UNCHANGED <<conversation_history, non_bot_vars>>

BotNext ==
    \E m \in MessageIds :
        \/ Enter(m)
        \/ SendThinking(m)
        \/ CallProcessor(m)
        \/ \E length \in AnswerLengths : ProcessorReturns(m, length)
        \/ ProcessorRaises(m)
        \/ Respond(m)
        \/ SendChunk(m)

SpecBot == BotInit /\ [][BotNext]_vars

\* process_message up to client.chat.completions.create
ProcessMessage(user_message, history) ==
    /\ groq_pc = "none"
    /\ groq_input' = [user_message |-> user_message,
                      conversation_history |-> history]
    /\ groq_requests' = Append(groq_requests, GroqMessages(user_message, history))
    /\ groq_pc' = "api"
    /\ UNCHANGED <<groq_responses, executions, groq_result, non_groq_vars>>

\* the API answers: the content of the message is returned
APIReturns(message) ==
    /\ groq_pc = "api"
    /\ groq_responses' = Append(groq_responses, message)
    /\ groq_result' = message.content
    /\ groq_pc' = "returned"
    /\ UNCHANGED <<groq_input, groq_requests, executions, non_groq_vars>>

\* the API call raises: the text of the error is returned
APIRaises ==
    /\ groq_pc = "api"
    /\ groq_result' = Text("I'm sorry, I encountered an error while processing your request: Connection error.")
    /\ groq_pc' = "returned"
    /\ UNCHANGED <<groq_input, groq_requests, groq_responses, executions, non_groq_vars>>

GroqNext ==
    \/ \E u \in UserMessages, h \in Histories : ProcessMessage(u, h)
    \/ \E message \in APIResponses : APIReturns(message)
    \/ APIRaises

SpecGroq == GroqInit /\ [][GroqNext]_vars

(***************************************************************************)
(* Web3ResearchMCPServer.execute_tool                                     *)
(* (agentzer0/mcp_servers/web3_research_server.py)                        *)
(***************************************************************************)
MaxCalls == 3

\* how a tool method ends, and the state it leaves
Raised(research, res) == [raised |-> TRUE, current_research |-> research, resources |-> res]
Returned(research, res) == [raised |-> FALSE, current_research |-> research, resources |-> res]

\* parameters[key] raises KeyError for a key that is missing
Has(parameters, keys) == keys \subseteq DOMAIN parameters

\* the research plan _create_research_plan builds at time `now`
ResearchPlan(token_name, token_ticker, now) ==
    [active |-> TRUE, token_name |-> token_name, token_ticker |-> token_ticker,
     created_at |-> now, updated_at |-> now,
     sections |-> [section \in Sections |-> "planned"], resources |-> <<>>]

\* the plan is written to its file, then made the current research
_create_research_plan(parameters, env, now, research, res) ==
    IF ~Has(parameters, {"token_name", "token_ticker"}) THEN Raised(research, res)
    ELSE IF ~env.research_dir_ok THEN Raised(research, res)
    ELSE Returned(ResearchPlan(parameters.token_name, parameters.token_ticker, now), res)

\* raises: the search API is not configured
_search_web(parameters, env, now, research, res) == Raised(research, res)

_search_token_with_keywords(parameters, env, now, research, res) == Raised(research, res)

_search_token_source(parameters, env, now, research, res) == Raised(research, res)

\* the status of the section is changed in the current research, which is then
\* written to its file
_update_research_status(parameters, env, now, research, res) ==
    IF ~Has(parameters, {"section", "status"}) THEN Raised(research, res)
    ELSE IF ~research.active THEN Returned(research, res)
    ELSE IF parameters.section \notin Sections THEN Returned(research, res)
    ELSE LET updated == [research EXCEPT !.sections[parameters.section] = parameters.status,
                                         !.updated_at = now]
         IN  IF env.research_dir_ok THEN Returned(updated, res) ELSE Raised(updated, res)

\* the content is fetched and written to a resource file, the resource is
\* registered, and added to the current research, which is written to its file
_fetch_url_content(parameters, env, now, research, res) ==
    IF ~Has(parameters, {"url"}) THEN Raised(research, res)
    ELSE IF ~env.http_ok \/ ~env.resources_dir_ok THEN Raised(research, res)
    ELSE LET registered == [id \in DOMAIN res \cup {now} |->
                               IF id = now THEN [type |-> "url_content", url |-> parameters.url]
                               ELSE res[id]]
             updated == [research EXCEPT !.resources = Append(@, now)]
         IN  IF ~research.active THEN Returned(research, registered)
             ELSE IF env.research_dir_ok THEN Returned(updated, registered)
             ELSE Raised(updated, registered)

_list_resources(parameters, env, now, research, res) == Returned(research, res)

\* a research plan is created, then the exception is raised: the research
\* APIs are not configured
_start_comprehensive_research(parameters, env, now, research, res) ==
    IF ~Has(parameters, {"token_name", "token_ticker"}) THEN Raised(research, res)
    ELSE LET plan == _create_research_plan(parameters, env, now, research, res)
         IN  Raised(plan.current_research, plan.resources)

execute_tool(tool_name, parameters, env, now, research, res) ==
    CASE tool_name = "create_research_plan" ->
             _create_research_plan(parameters, env, now, research, res)
      [] tool_name = "search_web" -> _search_web(parameters, env, now, research, res)
      [] tool_name = "search_token_with_keywords" ->
             _search_token_with_keywords(parameters, env, now, research, res)
      [] tool_name = "update_research_status" ->
             _update_research_status(parameters, env, now, research, res)
      [] tool_name = "fetch_url_content" ->
             _fetch_url_content(parameters, env, now, research, res)
      [] tool_name = "list_resources" -> _list_resources(parameters, env, now, research, res)
      [] tool_name = "search_token_source" ->
             _search_token_source(parameters, env, now, research, res)
      [] tool_name = "start_comprehensive_research" ->
             _start_comprehensive_research(parameters, env, now, research, res)
      [] OTHER -> Raised(research, res)

\* the calls made: every tool with its parameters and without, and a tool
\* the server does not have
Token == [token_name |-> "Bitcoin", token_ticker |-> "BTC"]
ToolCalls ==
    {<<"create_research_plan", Token>>,
     <<"search_web", [query |-> "Bitcoin price"]>>,
     <<"search_token_with_keywords",
       [token_name |-> "Bitcoin", token_ticker |-> "BTC", keywords |-> <<"price">>]>>,
     <<"update_research_status", [section |-> "tokenomics", status |-> "completed"]>>,
     <<"update_research_status", [section |-> "nonexistent", status |-> "completed"]>>,
     <<"fetch_url_content", [url |-> "https://example.com"]>>,
     <<"list_resources", <<>>>>,
     <<"search_token_source",
       [token_name |-> "Bitcoin", token_ticker |-> "BTC", source |-> "CoinGecko"]>>,
     <<"start_comprehensive_research", Token>>,
     <<"start_comprehensive_research", <<>>>>,
     <<"create_research_plan", <<>>>>,
     <<"nonexistent_tool", <<>>>>}

\* what the call finds: the URL answers, the directories can be written
Environments == [http_ok : BOOLEAN, resources_dir_ok : BOOLEAN, research_dir_ok : BOOLEAN]

Web3Init ==
    /\ Constructed
    /\ HandlerIdle("none")
    /\ SharedIdle
    /\ GroqIdle
    /\ BotIdle
    /\ ServerConstructed

ExecuteTool(tool_name, parameters, env) ==
    /\ web3_calls < MaxCalls
    /\ LET result == execute_tool(tool_name, parameters, env, web3_calls + 1,
                                  current_research, resources)
       IN  /\ current_research' = result.current_research
           /\ resources' = result.resources
           /\ tool_outcome' = [tool |-> tool_name, raised |-> result.raised]
    /\ web3_calls' = web3_calls + 1
    /\ UNCHANGED non_web3_vars

Web3Next ==
    \E call \in ToolCalls, env \in Environments : ExecuteTool(call[1], call[2], env)

SpecWeb3 == Web3Init /\ [][Web3Next]_vars

(***************************************************************************)
(* A query answered through one server with a get_price tool              *)
(***************************************************************************)
\* one tool server, offering get_price; the query "price of BTC" is seeded
PriceQueryInit ==
    /\ pc = "llm"
    /\ tools_by_server = <<[server |-> "alpha", tools |-> <<"get_price">>]>>
    /\ all_tools = CombineTools(tools_by_server)
    /\ init_success = TRUE
    /\ messages = <<Msg("user", <<"price of BTC">>)>>
    /\ iteration = 0
    /\ had_tool_failure = FALSE
    /\ is_just_function_text = FALSE
    /\ pending = <<>>
    /\ all_tools_succeeded = TRUE
    /\ have_successful_results = FALSE
    /\ response = NoResponse
    /\ transport_ok = TRUE
    /\ persist_ok = TRUE
    /\ invocations = <<>>
    /\ llm_calls = 0
    /\ fallback_calls = 0
    /\ batches = 0
    /\ marks = [log |-> 0, inv |-> 0]
    /\ loop_exit = "none"
    /\ logged = <<>>
    /\ OthersIdle

\* the log shows the model a result of the tool
ResultInLog == \E i \in 1..Len(messages) : messages[i].role = "tool"

\* a model that requests get_price by a structured tool call, with or without
\* a text of its own, until it has a result, and then answers with it
PriceModelResponses ==
    IF ResultInLog
    THEN { [content |-> <<"The current rate: ", "BTC is $67,000">>, tool_calls |-> <<>>] }
    ELSE { [content |-> text, tool_calls |-> <<Call(10 * (batches + 1) + 1, "get_price", args)>>] :
             text \in {<<>>, <<"Let me check.">>, <<"One moment.">>},
             args \in {<<LB, RB>>, <<LB, QKV, RB>>} }

PriceQueryNext ==
    \/ \E raw \in PriceModelResponses : LLMReturns(raw)
    \/ ToolCallStep

SpecPriceQuery == PriceQueryInit /\ [][PriceQueryNext]_vars

(***************************************************************************)
(* One round on responses whose calls have unquoted keys                  *)
(***************************************************************************)
\* responses that request one call, structured or written in the text, with
\* the JSON member of the arguments written with or without key quotes
RepairResponses ==
    { [content |-> text, tool_calls |-> <<Call(11, name, args)>>] :
        text \in {<<>>, <<"Let me check.">>},
        name \in {"search", "price", "get-price"},
        args \in {<<LB, UKV, RB>>, <<UKV>>, <<LB, QKV, RB>>} }
    \cup
    { [content |-> pre \o PseudoCall(name, LB, <<member>>, <<RB, GT>>), tool_calls |-> <<>>] :
        pre \in {<<>>, <<"Sure. ">>, <<"Let me check.", NL>>},
        name \in {"search", "price", "get-price"},
        member \in {UKV, QKV} }

\* the round of the first response, to its end
RepairNext ==
    \/ llm_calls = 0 /\ \E raw \in RepairResponses : LLMReturns(raw)
    \/ ToolCallStep
    \/ TextCallStep

SpecRepair == ClassifyInit /\ [][RepairNext]_vars


(***************************************************************************)
(* Properties                                                             *)
(***************************************************************************)
Last(seq) == seq[Len(seq)]
FinalAnswer == Last(messages).content

\* the round of `response` has been processed to its end
RoundDone ==
    \/ pc = "llm" /\ llm_calls > 0
    \/ pc = "returned" /\ loop_exit \in {"exhausted", "success", "direct", "plain"}

NewMessages == SubSeq(messages, marks.log + 1, Len(messages))
NewInvocations == SubSeq(invocations, marks.inv + 1, Len(invocations))

Resolves(tool_name) == _find_server_for_tool(tools_by_server, tool_name) # ""
WellFormedCalls(calls) ==
    /\ calls # <<>>
    /\ \A k \in 1..Len(calls) : json_loads(calls[k].arguments).ok /\ Resolves(calls[k].name)

\* a tool call that returned a result which is not an error text
Successful(inv) == inv.ok /\ ~StartsWith(inv.content, ErrorStartToks)
LastSuccess == LastOf({i \in 1..Len(invocations) : Successful(invocations[i])})

\* C1 (as claimed): when the response carries well-formed structured tool
\* calls, then before the model is queried again exactly the requested tools
\* have been invoked, once each, with the parsed arguments, in request order,
\* and one tool-role result message per request has been appended in that order.
C1_StructuredCallsDispatched ==
    (RoundDone /\ WellFormedCalls(response.tool_calls)) =>
        LET calls == response.tool_calls
        IN  /\ Len(NewInvocations) = Len(calls)
            /\ \A k \in 1..Len(calls) :
                  /\ NewInvocations[k].tool = calls[k].name
                  /\ NewInvocations[k].args = json_loads(calls[k].arguments).val
            /\ Len(NewMessages) >= Len(calls) + 1
            /\ \A k \in 1..Len(calls) :
                  /\ NewMessages[k + 1].role = "tool"
                  /\ NewMessages[k + 1].tool_call_id = calls[k].id

\* C2 (as claimed): when the response contains a structured tool call or an
\* embedded pseudo-call, a result or error message is appended to the log
\* before the model is queried again: the log of the next query is longer.
C2_DispatchBeforeRequery ==
    (/\ pc = "llm" /\ llm_calls > 0
     /\ (response.tool_calls # <<>> \/ FunctionMatches(response.content) # <<>>)) =>
        \E i \in (marks.log + 1)..Len(messages) : messages[i].role \in {"tool", "user"}

\* the response is text that is one pseudo-call and nothing else
PureTextCall == response.tool_calls = <<>> /\ IsJustFunctionText(response.content)
PureCall == Head(FunctionMatches(response.content))

\* C3 (as claimed): when the whole output of the model is one pseudo-call and
\* the call succeeds (its arguments parse, its tool is served, the transport
\* works), the tool is invoked exactly once and process_query has returned
\* with the tool's normalized result as the final answer.
C3_PureCallShortCircuit ==
    (/\ RoundDone /\ PureTextCall
     /\ Attempt(PureCall.name, Strip(PureCall.args), tools_by_server, transport_ok).ok) =>
        /\ pc = "returned"
        /\ Len(NewInvocations) = 1
        /\ FinalAnswer = Last(invocations).content

\* C4 (as claimed): when the model emits only <function=search{...}> and the
\* search tool fails with a transport error, process_query has returned, with
\* the normalized error text as the final answer, without a second model call.
C4_PureCallFailureShortCircuit ==
    (/\ RoundDone /\ response.tool_calls = <<>>
     /\ response.content = PseudoCall("search", LB, <<QKV>>, <<RB, GT>>)
     /\ Resolves("search") /\ ~transport_ok) =>
        /\ pc = "returned"
        /\ StartsWith(FinalAnswer, ErrorStartToks)

\* a measure that every step of the client decreases
Rank ==
    CASE pc = "new" -> 16 * 8 + 2
      [] pc = "idle" -> 16 * 8 + 1
      [] pc = "llm" -> (max_iterations - iteration) * 8
      [] pc \in {"tools", "text_tools"} -> (max_iterations - 1 - iteration) * 8 + Len(pending) + 1
      [] pc = "fallback_llm" -> 1
      [] OTHER -> 0

\* C5: process_query terminates whatever the model and the tools do (each call
\* returning or raising): every step decreases a measure that is never
\* negative, so no behaviour takes more than finitely many steps; the main
\* loop queries the model at most 15 times and at most one call with tools
\* disabled is made.
C5_TerminatesWithinCap ==
    [][Rank' < Rank /\ Rank' >= 0 /\ llm_calls' <= 15 /\ fallback_calls' <= 1]_vars

C5_Witness == pc = "returned" /\ llm_calls = 15 /\ fallback_calls = 1

\* C6 (as claimed): when the loop runs through all its rounds and no tool call
\* of the session produced a successful result, the final answer is the
\* generic fallback message.
C6_CapWithoutSuccessIsGeneric ==
    (pc = "returned" /\ loop_exit = "exhausted" /\ LastSuccess = 0) =>
        FinalAnswer = GENERIC_FALLBACK

\* C7 (as claimed): when the loop runs through all its rounds and some tool
\* call returned a successful result, the final answer is the most recent
\* successful tool result of the session.
C7_CapAnswerIsLastSuccess ==
    (pc = "returned" /\ loop_exit = "exhausted" /\ LastSuccess # 0) =>
        FinalAnswer = invocations[LastSuccess].content

\* C8 (as claimed): in every round, a plain-text response without calls ends
\* process_query with that text as the one assistant message appended, which
\* is the last message of the returned log.
C8_PlainTextIsFinal ==
    (pc = "returned" /\ loop_exit = "plain") =>
        /\ Len(messages) = marks.log + 1
        /\ Last(messages) = Msg("assistant", response.content)

\* C9 (as claimed): when a model call fails, exactly one call with tools
\* disabled follows; its text is the final answer if it succeeds, the generic
\* apology if it fails.
C9_ModelFailureFallback ==
    (pc = "returned" /\ loop_exit \in {"fallback_ok", "fallback_fail"}) =>
        /\ fallback_calls = 1
        /\ loop_exit = "fallback_ok" => FinalAnswer \in FallbackTexts
        /\ loop_exit = "fallback_fail" => FinalAnswer = APOLOGY

\* C10: whichever model calls and tool calls fail, process_query returns a log
\* whose last message is an assistant message with a text answer.
C10_ReturnsAssistantAnswer ==
    pc = "returned" =>
        /\ messages # <<>>
        /\ Last(messages).role = "assistant"
        /\ Last(messages).tool_calls = <<>>
        /\ Last(messages).content \in Seq(STRING)

C10_Witness ==
    /\ pc = "returned"
    /\ loop_exit = "fallback_fail"
    /\ \E i \in 1..Len(invocations) : ~invocations[i].ok

\* some tool call of the session has failed: the tool server raised, or it
\* returned a result that is an error text
SomeCallFailed == \E i \in 1..Len(invocations) : ~Successful(invocations[i])

\* the message a dispatch step appends as the result of the call it processed
AppendedResult == messages'[Len(messages) + 1]

\* a user-role echo "Tool X returned: ..."
IsReturnedEcho(m) ==
    /\ m.role = "user"
    /\ StartsWith(m.content, {"Tool ", "Tool '"})
    /\ Contains(m.content, {" returned: ", "' returned: "})

\* C11 (as claimed): once a tool call of the session has failed, every result
\* message appended afterwards, for later calls of the same batch and of later
\* batches, is a user-role "Tool X returned: ..." echo and none has role tool.
C11_UserEchoAfterFailure ==
    [][(pc \in {"tools", "text_tools"} /\ SomeCallFailed) =>
           IsReturnedEcho(AppendedResult)]_vars

\* the positions of the messages that answer tool-call id `id`
AnswersTo(id) == {j \in 1..Len(messages) : messages[j].tool_call_id = id}

\* C12 (as claimed): whenever a model call is about to be made, or the query
\* has returned, every tool-call id carried by an assistant message of the log
\* is the tool_call_id of exactly one message, and that message comes later.
C12_EveryCallIdAnswered ==
    pc \in {"llm", "fallback_llm", "returned"} =>
        \A i \in 1..Len(messages) : \A k \in 1..Len(messages[i].tool_calls) :
            /\ Cardinality(AnswersTo(messages[i].tool_calls[k].id)) = 1
            /\ \A j \in AnswersTo(messages[i].tool_calls[k].id) : j > i

\* C13: in every reachable state, each tool-role message of the log has the
\* tool_call_id of a tool call carried by an assistant message that stands
\* earlier in the log.
C13_ToolMessagesReferToCalls ==
    \A j \in 1..Len(messages) :
        messages[j].role = "tool" =>
            \E i \in 1..(j - 1) :
                /\ messages[i].role = "assistant"
                /\ \E k \in 1..Len(messages[i].tool_calls) :
                      messages[i].tool_calls[k].id = messages[j].tool_call_id

\* a tool-format batch with a failed call was followed by a degraded batch
C13_Witness ==
    /\ had_tool_failure
    /\ batches = 2
    /\ \E j \in 1..Len(messages) : messages[j].role = "tool"
    /\ \E j \in 1..Len(messages) :
          messages[j].role = "user" /\ StartsWith(messages[j].content, {"Tool "})

\* the positions, in registration order, of the connected servers that list the tool
Providers(tool_name) ==
    {i \in 1..Len(tools_by_server) :
        \E k \in 1..Len(tools_by_server[i].tools) : tools_by_server[i].tools[k] = tool_name}

FirstOf(S) == CHOOSE i \in S : \A j \in S : i <= j

Requests(resp) ==
    IF resp.tool_calls # <<>> THEN resp.tool_calls
    ELSE [k \in 1..Len(FunctionMatches(resp.content)) |->
             Call(0, FunctionMatches(resp.content)[k].name,
                  Strip(FunctionMatches(resp.content)[k].args))]

\* the arguments parse (if need be after the repair) and the name resolves
Dispatchable(call) == Attempt(call.name, call.arguments, tools_by_server, TRUE).called

IsErrorResult(m) == m.role \in {"tool", "user"} /\ StartsWith(m.content, ErrorStartToks)

\* C15 (as claimed): when a requested call cannot be parsed even after the
\* repair, or its name resolves to no connected server, then at the end of the
\* round no tool server was called for it (only the other requests were
\* invoked), an error text stands in the log as its result, every request of
\* the batch has its result message, and the loop went on (next model call,
\* or the answer at the cap) instead of aborting.
C15_UndispatchableCallAnswered ==
    RoundDone =>
        LET R == Requests(response)
        IN  \A k \in 1..Len(R) :
                ~Dispatchable(R[k]) =>
                    /\ Len(NewInvocations) = Cardinality({j \in 1..Len(R) : Dispatchable(R[j])})
                    /\ Len(NewMessages) >= Len(R) + 1
                    /\ IsErrorResult(NewMessages[k + 1])

\* C16 (as claimed): once the batch of a failed tool call is over, the
\* session's had_tool_failure flag is set, for both forms of failure: the tool
\* server raised, or it returned an error-tagged result that
\* _format_tool_result renders as "Error: <message>".
C16_FailureSetsFlag ==
    (pc \in {"llm", "fallback_llm", "returned"} /\ SomeCallFailed) => had_tool_failure

\* the number of pseudo-calls written in a text (each has one "function=")
Written(text) == Cardinality({i \in 1..Len(text) : text[i] = FN})

\* C17 (as claimed): when the response text embeds one pseudo-call that
\* several patterns of the extractor match, the identical (name, arguments)
\* pairs count once: at the end of the round the tool has been invoked exactly
\* once (not at all if the call cannot be dispatched).
C17_OneInvocationPerPseudoCall ==
    (/\ RoundDone /\ response.tool_calls = <<>>
     /\ ~IsJustFunctionText(response.content)
     /\ Written(response.content) = 1
     /\ Len(FunctionMatches(response.content)) >= 2) =>
        Len(NewInvocations) = IF Dispatchable(Requests(response)[1]) THEN 1 ELSE 0

\* the forms of a pseudo-call: what opens it and what closes it
CallForms ==
    { [pre |-> <<LT, FN>>, open |-> LB, close |-> <<RB, GT>>],
      [pre |-> <<LT, FN>>, open |-> LP, close |-> <<RP, GT>>],
      [pre |-> <<LT, FN>>, open |-> LP, close |-> <<RP, ENDTAG>>],
      [pre |-> <<FN>>, open |-> LP, close |-> <<RP>>],
      [pre |-> <<FN>>, open |-> LB, close |-> <<RB>>] }

\* the text is one pseudo-call from its first to its last character: it opens
\* at the start, its closing is the end of the text, and there is no other call
ExactlyOneCall(s) ==
    /\ Written(s) = 1
    /\ \E f \in CallForms :
          /\ OpensAt(s, 1, f.pre, f.open)
          /\ LazyClose(s, Len(f.pre) + 3, f.close) = Len(s) - Len(f.close) + 1

\* C18 (as claimed): the pure-call test is true if and only if the trimmed
\* response text is exactly one pseudo-call with nothing before or after it;
\* in particular a text that starts with a call and goes on is not pure.
C18_PureIffExactlyOneCall ==
    llm_calls > 0 =>
        (is_just_function_text <=> ExactlyOneCall(Strip(response.content)))

\* the argument text fails json.loads as it is and parses after the repair
RepairsToJSON(s) ==
    /\ ~json_loads(CleanUp(WrapArgs(s))).ok
    /\ json_loads(QuoteKeys(CleanUp(WrapArgs(s)))).ok

\* the argument mapping of the well-formed call: the same text with its key
\* in quotes, as a JSON object
WellFormedMapping(s) ==
    LET quoted == [i \in 1..Len(s) |-> IF s[i] = UKV THEN QKV ELSE s[i]]
    IN  json_loads(IF StartsWith(quoted, {LB}) THEN quoted
                   ELSE <<LB>> \o quoted \o <<RB>>).val

\* C19 (as claimed): when the arguments of a requested call are malformed
\* only by unquoted keys (they parse after the key-quoting repair) and the
\* tool is served, then by the end of the round the tool has been invoked
\* with the argument mapping of the corresponding well-formed call.
C19_UnquotedKeysRepaired ==
    RoundDone =>
        \A k \in 1..Len(Requests(response)) :
            LET call == Requests(response)[k]
            IN  (RepairsToJSON(call.arguments) /\ Resolves(call.name)) =>
                    \E i \in 1..Len(NewInvocations) :
                        /\ NewInvocations[i].tool = call.name
                        /\ NewInvocations[i].args = WellFormedMapping(call.arguments)

\* C20 (as claimed): whatever the tool server answered (None, a string, an
\* error-tagged mapping, a list of mixed items, also items whose text is no
\* string, a mapping with or without a text field, any other object),
\* _format_tool_result did not raise and returned a string.
C20_FormatNeverRaisesReturnsStr ==
    \A i \in 1..Len(invocations) :
        invocations[i].answered =>
            /\ ~invocations[i].result.raises
            /\ invocations[i].result.is_str

\* what _format_tool_result returned, as an input of _format_tool_result
AsRaw(result) ==
    [NoText EXCEPT !.kind = IF result.is_str THEN "str" ELSE "value", !.text = result.value]

\* C21 (as claimed): _format_tool_result is idempotent: for every raw result
\* the tool server answered, the call returned, and formatting what it
\* returned gives it back unchanged; a plain string is returned unchanged.
C21_FormatIdempotent ==
    \A i \in 1..Len(invocations) :
        invocations[i].answered =>
            /\ ~invocations[i].result.raises
            /\ _format_tool_result(AsRaw(invocations[i].result)) = invocations[i].result
            /\ invocations[i].raw.kind = "str" =>
                   invocations[i].result = Returns(invocations[i].raw.text)

\* C22 (as claimed): a query answered through one server whose get_price tool
\* returns {"text": "BTC is $67,000"}, the model requesting get_price by a
\* structured tool call: when process_query has returned (the tool having
\* answered whenever it was called), exactly one tool invocation occurred and
\* the final answer contains the tool's text.
C22_OneInvocationAnswerHasText ==
    (pc = "returned" /\ \A i \in 1..Len(invocations) : invocations[i].answered) =>
        /\ Len(invocations) = 1
        /\ Contains(FinalAnswer, {"BTC is $67,000"})

\* C23 (as claimed): a failure of the conversation-log persistence call is never
\* propagated and never changes the session: process_query returns the log and
\* the answer it would return had persistence succeeded.  With persistence
\* working no message of a log reports a persistence error and the loop's
\* error handler is entered by model errors only, so in every returned log
\* no message reports the persistence error, and a query whose only model
\* response was a plain answer returns the user message and that answer.
C23_PersistenceFailureIsolated ==
    pc = "returned" =>
        /\ \A i \in 1..Len(messages) : ~Contains(messages[i].content, {MAKEDIRS_ERR})
        /\ (llm_calls = 1 /\ response # NoResponse /\ response.tool_calls = <<>>
              /\ ~is_just_function_text /\ FunctionMatches(response.content) = <<>>) =>
                 messages = <<messages[1], Msg("assistant", response.content)>>

\* C24: when initialize_servers returns False the handler sends the
\* setup-failure reply and nothing else, process_query is never called for
\* the message (no log is seeded, the model is never asked), and the client is
\* cleaned up; initialize_servers returns True exactly when at least one
\* server connected.
C24_SetupFailureReported ==
    /\ (handler_pc = "finished" /\ pc = "idle" /\ ~init_success) =>
          /\ replies = <<SETUP_FAILED_REPLY>>
          /\ SETUP_FAILED_REPLY # HELLO_REPLY
          /\ cleaned
    /\ (pc # "new" /\ ~init_success) => (pc = "idle" /\ messages = <<>> /\ llm_calls = 0)
    /\ pc # "new" => (init_success <=> tools_by_server # <<>>)

C24_Witness ==
    handler_pc = "finished" /\ pc = "idle" /\ ~init_success /\ cleaned

\* C25 (as claimed): when two queries are processed concurrently, the log
\* process_query returns to each holds that query's own user message at its
\* head (none of its messages is lost) and no message of the other query.
C25_LogsAreIsolated ==
    \A q \in 1..2 :
        returned_log[q] # <<>> =>
            /\ returned_log[q][1] = Msg("user", SharedQueries[q])
            /\ \A i \in 1..Len(returned_log[q]) :
                   returned_log[q][i] # Msg("user", SharedQueries[3 - q])

\* C26 (as claimed): every model request of the main loop carries the
\* current tool catalog, and a request made with an empty catalog still has
\* at least one tool descriptor.
C26_RequestCarriesTools ==
    pc = "llm" =>
        LET params == RequestParams(messages, all_tools)
        IN  /\ params.has_tools
            /\ Len(params.tools) >= 1
            /\ all_tools # <<>> =>
                  /\ Len(params.tools) = Len(all_tools)
                  /\ \A k \in 1..Len(all_tools) : params.tools[k].name = all_tools[k].name

\* json.loads of the arguments of a tool call
ParsedArguments(arguments) ==
    IF arguments = "{\"param\": \"value\"}" THEN {<<"param", "value">>} ELSE {}

\* C27 (as claimed): when the response to process_message carries a tool call
\* named '<server>.<tool>', the tool is executed exactly once through
\* execute_tool(server, tool, parsed arguments), the model is queried a second
\* time with the assistant tool-call message and a tool message of the same
\* tool_call_id appended, and the text of the second response is returned.
C27_ToolCallExecutedThenRequeried ==
    (groq_pc = "returned" /\ groq_responses # <<>> /\ groq_responses[1].tool_calls # <<>>) =>
        LET call == groq_responses[1].tool_calls[1]
            first == groq_requests[1]
        IN  /\ executions = <<[server_name |-> call.server, tool_name |-> call.tool,
                               parameters |-> ParsedArguments(call.arguments)]>>
            /\ Len(groq_requests) = 2
            /\ Len(groq_requests[2]) = Len(first) + 2
            /\ SubSeq(groq_requests[2], 1, Len(first)) = first
            /\ groq_requests[2][Len(first) + 1].role = "assistant"
            /\ groq_requests[2][Len(first) + 1].tool_calls = <<call>>
            /\ groq_requests[2][Len(first) + 2].role = "tool"
            /\ groq_requests[2][Len(first) + 2].tool_call_id = call.id
            /\ Len(groq_responses) = 2
            /\ groq_result = groq_responses[2].content

\* the message is the current user message of the history: the handler has
\* put it at its end
IsCurrent(history, user_message) ==
    /\ history # <<>>
    /\ history[Len(history)].role = "user"
    /\ history[Len(history)].content = user_message

\* C28 (as claimed): the message list sent to the API is the system message
\* followed by the conversation history, the current user message (the last of
\* the history) is in it once and not a second time, and for a history that holds
\* only the current user message the request has two messages.
C28_RequestIsSystemThenHistory ==
    groq_pc # "none" =>
        LET h == groq_input.conversation_history
            u == groq_input.user_message
            request == groq_requests[1]
        IN  /\ request[1] = SYSTEM_MESSAGE
            /\ SubSeq(request, 2, Len(h) + 1) = h
            /\ IsCurrent(h, u) => request = <<SYSTEM_MESSAGE>> \o h
            /\ (Len(h) = 1 /\ IsCurrent(h, u)) => Len(request) = 2

\* the places of the events of message m of one kind, in order of occurrence
EventsOf(op, m) ==
    {i \in 1..Len(bot_events) : bot_events[i].op = op /\ bot_events[i].m = m}

Before(earlier, later) == \A i \in earlier, j \in later : i < j

\* C29 (as claimed): for every message handle_message has handled
\* successfully, the processor was called exactly once, the history of the
\* channel holds the user message immediately followed by the response, and
\* "Thinking..." was sent before the processor ran and deleted before the
\* response was sent.
C29_HandledMessageRecorded ==
    \A m \in DOMAIN handling :
        handling[m].at = "done" =>
            LET history == HistoryOf(CHANNEL_ID)
                answer == handling[m].response
                calls == EventsOf("processor", m)
            IN  /\ Cardinality(calls) = 1
                /\ \E i \in 1..(Len(history) - 1) :
                       /\ history[i] = UserEntry(m)
                       /\ history[i + 1] = AssistantEntry(answer)
                /\ Cardinality(EventsOf("send_thinking", m)) = 1
                /\ Before(EventsOf("send_thinking", m), calls)
                /\ Cardinality(EventsOf("delete_thinking", m)) = 1
                /\ Before(calls, EventsOf("delete_thinking", m))
                /\ EventsOf("send_response", m) # {}
                /\ Before(EventsOf("delete_thinking", m), EventsOf("send_response", m))

\* the calls the claim is about: a tool the server does not have, and the
\* tools whose API is not configured
RaisingTools == {"nonexistent_tool", "search_web", "search_token_with_keywords",
                 "search_token_source", "start_comprehensive_research"}

\* C30 (as claimed): every execute_tool call that raises, for an unknown tool
\* name or a tool whose API is not configured, leaves current_research and
\* resources as they were.
C30_RaisingCallLeavesState ==
    [][(web3_calls' = web3_calls + 1 /\ tool_outcome'.raised
          /\ tool_outcome'.tool \in RaisingTools) =>
             (current_research' = current_research /\ resources' = resources)]_vars

\* C31 (as claimed): when the last call of a batch of structured tool calls
\* has been processed, the model is queried again, unless the rounds are
\* used up; a successful tool result does not end the loop.
C31_BatchThenRequery ==
    [][(pc = "tools" /\ pc' # "tools") =>
          (pc' = "llm" \/ (pc' = "returned" /\ loop_exit' = "exhausted"))]_vars

\* C32 (as claimed): when process_query returns, the last snapshot passed to
\* log_conversation is the message log it returns, with the final answer.
C32_LastSnapshotIsReturnedLog ==
    pc = "returned" => logged = messages

\* new is old with messages added at its end
Extends(old, new) == Len(new) >= Len(old) /\ SubSeq(new, 1, Len(old)) = old

\* C33: after the seeding, every step of process_query leaves the message
\* log as it is or adds messages at its end; no message of the log is
\* removed, moved or replaced.
C33_LogIsAppendOnly ==
    [][pc \notin {"new", "idle"} => Extends(messages, messages')]_vars

\* the model was asked twice and tool results were added to the log
C33_Witness ==
    /\ pc = "returned"
    /\ llm_calls >= 2
    /\ \E i \in 1..Len(messages) : messages[i].role = "tool"
    /\ Len(messages) >= 5

\* C34 (as claimed): the log process_query returns begins with a system
\* message followed by the user message of the query.
C34_LogStartsWithSystemAndUser ==
    pc = "returned" =>
        /\ Len(messages) >= 2
        /\ messages[1].role = "system"
        /\ messages[2].role = "user" /\ messages[2].content \in Queries

\* the result message of a call that failed: the text "Error" stands in it
IsFailureResult(m) == m.role \in {"tool", "user"} /\ Contains(m.content, ErrorToks)

\* the result messages of one batch (no assistant message between them)
\* have the same format
BatchUniform ==
    \A i, j \in 2..Len(messages) :
        (i < j /\ \A k \in i..j : messages[k].role # "assistant") =>
            messages[i].role = messages[j].role

\* after the result of a failed call, the assistant message of every later
\* round carries no tool calls and no later result has role tool
DegradedAfter(i) ==
    \A k \in (i + 1)..Len(messages) :
        messages[k].role = "assistant" =>
            /\ messages[k].tool_calls = <<>>
            /\ \A j \in (k + 1)..Len(messages) : messages[j].role # "tool"

\* C35 (as claimed): had_tool_failure never returns to false during a query,
\* the result messages of one batch have one format, and in the batches
\* dispatched after a batch with a failed call no tool-role message and no
\* assistant message with tool calls is appended.
C35_DegradationPermanentAndUniform ==
    [][/\ (pc \notin {"new", "idle"} /\ had_tool_failure) => had_tool_failure'
       /\ BatchUniform'
       /\ \A i \in 1..Len(messages') : IsFailureResult(messages'[i]) => DegradedAfter(i)']_vars

\* C36 (as claimed): when the loop is left because a structured call of the
\* current batch returned useful data, the final answer is the result of a
\* call made in that batch, not a result an earlier batch left in the log.
C36_EarlyAnswerFromSameBatch ==
    [][(pc = "tools" /\ pc' = "returned" /\ loop_exit' = "success") =>
          \E i \in 1..Len(NewInvocations') :
              /\ NewInvocations'[i].ok
              /\ NewInvocations'[i].content = Last(messages').content]_vars

\* C37 (as claimed): when on_message has handled a query to its end, one
\* answer has been sent to the user, and it is the content of the last
\* assistant message of the log process_query returned.
C37_OneAnswerIsLastAssistantMessage ==
    (handler_pc = "finished" /\ pc = "returned") =>
        LET a == LastOf({i \in 1..Len(messages) : messages[i].role = "assistant"})
        IN  /\ a # 0
            /\ replies = <<messages[a].content>>

\* C38 (as claimed): the id of a message is in processing_queries only while
\* the message is being handled; however on_message ends, the id is removed.
C38_IdOnlyWhileHandling ==
    MESSAGE_ID \in processing_queries => handler_pc = "handling"


\* C39: the conversation history kept for a channel never holds more than 20
\* messages, in every state reachable through handle_message calls
C39_HistoryWithinLimit ==
    \A c \in DOMAIN conversation_history : Len(conversation_history[c]) <= HISTORY_LIMIT
====
